---- MODULE Spec2Model ----
(***************************************************************************)
(* libgpuarray: the cuBLAS dispatcher (part_000) and the NCCL collectives  *)
(* (part_001).  Every entry point is translated into the sequence of       *)
(* statements it executes (its "program"); a host thread runs a program    *)
(* one statement at a time.  The gate (cuda_enter / cuda_exit), the hazard *)
(* tracker (cuda_wait / cuda_record) and the device queue are not part of  *)
(* the translated files; they follow the design document.                  *)
(***************************************************************************)
EXTENDS Integers, Sequences, FiniteSets, TLC

(* ------------------------------ bounds -------------------------------- *)
MaxBatch == 2        \* batchCount ranges over 1..MaxBatch
MaxPending == 2      \* device tasks that can be queued at once

(* ------------------------- program constants -------------------------- *)
INT_MAX == 2147483647

Threads == {1, 2}
Contexts == {1, 2}
Buffers == {1, 2, 3, 4}
HandleIds == {1, 2}
CommIds == {1, 2}
NULL == 0

\* gpudata: the owning context and the byte size of every device buffer.
gpudata ==
  (1 :> [ctx |-> 1, sz |-> 16]) @@ (2 :> [ctx |-> 1, sz |-> 8]) @@
  (3 :> [ctx |-> 1, sz |-> 16]) @@ (4 :> [ctx |-> 2, sz |-> 16])

CUDA_WAIT_READ == {"R"}
CUDA_WAIT_WRITE == {"W"}
CUDA_WAIT_ALL == {"R", "W"}

(* ------------------------------ helpers ------------------------------- *)
Min(a, b) == IF a < b THEN a ELSE b

\* LARGE_VAL(v): v >= INT_MAX.
LARGE_VAL(v) == v >= INT_MAX

\* A product of two size_t values.  Every product of part_000 is formed
\* after its factors were found below INT_MAX, or is compared with a limit
\* below INT_MAX, so it is kept exact below INT_MAX and held at INT_MAX
\* from there on.
Mul(a, b) ==
  IF a = 0 \/ b = 0 THEN 0
  ELSE IF a > INT_MAX \div b THEN INT_MAX ELSE a * b

convT(trans) ==
  CASE trans = "cb_no_trans" -> "CUBLAS_OP_N"
    [] trans = "cb_trans" -> "CUBLAS_OP_T"
    [] trans = "cb_conj_trans" -> "CUBLAS_OP_C"
    [] OTHER -> "-1"

\* Fault: every failed cuBLAS call is an execution error.
error_cublas_flat(e) == "GA_BLAS_ERROR"

\* error_cublas: the status returned for a failed cuBLAS call.
error_cublas(e) ==
  IF e = "CUBLAS_STATUS_ARCH_MISMATCH" THEN "GA_DEVSUP_ERROR" ELSE "GA_BLAS_ERROR"

(* ---------------------------- statements ------------------------------ *)
\* One statement of a program.  onfail is what the statement's error
\* branch executes before it returns.
Stmt(op) ==
  [op |-> op, fn |-> "", ctx |-> 0, buf |-> 0, mode |-> {}, acc |-> {},
   onfail |-> << >>, code |-> "", slot |-> "", args |-> << >>, keep |-> FALSE]

Return(code) == [Stmt("return") EXCEPT !.code = code]
Enter(c) == [Stmt("cuda_enter") EXCEPT !.ctx = c]
Exit(c) == [Stmt("cuda_exit") EXCEPT !.ctx = c]

\* GA_CUDA_EXIT_ON_ERROR(ctx, cmd): on an error of cmd, cuda_exit(ctx) and
\* return the error.
GA_CUDA_EXIT_ON_ERROR(c, s) == [s EXCEPT !.ctx = c, !.onfail = <<Exit(c)>>]

\* Fault: a failed cuBLAS call returns without cuda_exit.
CUBLAS_EXIT_ON_ERROR_inside(c, s) == [s EXCEPT !.ctx = c, !.onfail = << >>]

\* CUBLAS_EXIT_ON_ERROR(ctx, cmd): on a status other than success,
\* cuda_exit(ctx) and return error_cublas of the status.
CUBLAS_EXIT_ON_ERROR(c, s) == [s EXCEPT !.ctx = c, !.onfail = <<Exit(c)>>]

cuda_wait(b, mode) == [Stmt("cuda_wait") EXCEPT !.buf = b, !.mode = mode]
cuda_record(b, mode) == [Stmt("cuda_record") EXCEPT !.buf = b, !.mode = mode]

\* A cuBLAS compute call: fn, the buffers it reads and writes, its arguments.
Cublas(fn, reads, writes, args) ==
  [Stmt("cublas") EXCEPT !.fn = fn,
     !.acc = {<<b, "r">> : b \in reads} \cup {<<b, "w">> : b \in writes},
     !.args = args]

\* err = cublasXxx(...): the status is kept in err and tested later.
KeepErr(c, s) == [s EXCEPT !.ctx = c, !.keep = TRUE]

\* if (err != success) { cuda_exit(ctx); return code of err; }
IfErr(c) == [Stmt("iferr") EXCEPT !.ctx = c, !.onfail = <<Exit(c)>>]

(* ------------------------------- gemm --------------------------------- *)
\* The overflow test shared by every gemm entry point.
GemmLarge(r) ==
  \/ LARGE_VAL(r.M) \/ LARGE_VAL(r.N) \/ LARGE_VAL(r.K)
  \/ LARGE_VAL(r.lda) \/ LARGE_VAL(r.ldb) \/ LARGE_VAL(r.ldc)
  \/ LARGE_VAL(Mul(r.M, r.N)) \/ LARGE_VAL(Mul(r.M, r.K))
  \/ LARGE_VAL(Mul(r.K, r.N))

\* Fault: a swap that leaves the offsets with the wrong operands.
SwapAB_keep_off(r) ==
  IF r.order = "cb_c"
  THEN [r EXCEPT !.N = r.M, !.M = r.N, !.A = r.B, !.B = r.A,
                 !.lda = r.ldb, !.ldb = r.lda,
                 !.transA = r.transB, !.transB = r.transA]
  ELSE r

\* if (order == cb_c) { swap A and B }
SwapAB(r) ==
  IF r.order = "cb_c"
  THEN [r EXCEPT !.N = r.M, !.M = r.N, !.A = r.B, !.B = r.A,
                 !.lda = r.ldb, !.ldb = r.lda,
                 !.transA = r.transB, !.transB = r.transA,
                 !.offA = r.offB, !.offB = r.offA]
  ELSE r

GemmArgs(n) ==
  [transA |-> convT(n.transA), transB |-> convT(n.transB),
   M |-> n.M, N |-> n.N, K |-> n.K,
   A |-> n.A, offA |-> n.offA, lda |-> n.lda,
   B |-> n.B, offB |-> n.offB, ldb |-> n.ldb,
   C |-> n.C, offC |-> n.offC, ldc |-> n.ldc]

\* The bracket of sgemm / dgemm / hgemm after validation.
GemmBracket(r, fn) ==
  LET c == gpudata[r.A].ctx
      n == SwapAB(r)
  IN  << Enter(c),
         GA_CUDA_EXIT_ON_ERROR(c, cuda_wait(n.A, CUDA_WAIT_READ)),
         GA_CUDA_EXIT_ON_ERROR(c, cuda_wait(n.B, CUDA_WAIT_READ)),
         GA_CUDA_EXIT_ON_ERROR(c, cuda_wait(n.C, CUDA_WAIT_ALL)),
         CUBLAS_EXIT_ON_ERROR(c, Cublas(fn, {n.A, n.B, n.C}, {n.C}, GemmArgs(n))),
         GA_CUDA_EXIT_ON_ERROR(c, cuda_record(n.A, CUDA_WAIT_READ)),
         GA_CUDA_EXIT_ON_ERROR(c, cuda_record(n.B, CUDA_WAIT_READ)),
         GA_CUDA_EXIT_ON_ERROR(c, cuda_record(n.C, CUDA_WAIT_ALL)),
         Exit(c),
         Return("GA_NO_ERROR") >>

\* Fault: an sgemm that tests for overflow inside the bracket.
sgemm_test_inside(r) ==
  IF GemmLarge(r)
  THEN <<Enter(gpudata[r.A].ctx), Exit(gpudata[r.A].ctx), Return("GA_XLARGE_ERROR")>>
  ELSE GemmBracket(r, "cublasSgemm")

sgemm(r) ==
  IF GemmLarge(r) THEN <<Return("GA_XLARGE_ERROR")>>
  ELSE GemmBracket(r, "cublasSgemm")

dgemm(r) ==
  IF GemmLarge(r) THEN <<Return("GA_XLARGE_ERROR")>>
  ELSE GemmBracket(r, "cublasDgemm")

\* Fault: an hgemm that computes in single precision when cublasSgemmEx is
\* not there.
hgemm_upcast(r, lib) ==
  IF GemmLarge(r) THEN <<Return("GA_XLARGE_ERROR")>>
  ELSE GemmBracket(r, IF "cublasSgemmEx" \in lib THEN "cublasSgemmEx" ELSE "cublasSgemm")

\* lib: the optional entry points the loaded cuBLAS exposes.
hgemm(r, lib) ==
  IF "cublasSgemmEx" \notin lib THEN <<Return("GA_DEVSUP_ERROR")>>
  ELSE IF GemmLarge(r) THEN <<Return("GA_XLARGE_ERROR")>>
  ELSE GemmBracket(r, "cublasSgemmEx")


(* ------------------------ strided-batched gemm ------------------------ *)
\* if (order == cb_c) { swap A and B }, the strides included.
SwapAB3D(r) ==
  IF r.order = "cb_c"
  THEN [SwapAB(r) EXCEPT !.strideA = r.strideB, !.strideB = r.strideA]
  ELSE r

Gemm3DArgs(n) ==
  [transA |-> convT(n.transA), transB |-> convT(n.transB),
   M |-> n.M, N |-> n.N, K |-> n.K,
   A |-> n.A, offA |-> n.offA, lda |-> n.lda, strideA |-> n.strideA,
   B |-> n.B, offB |-> n.offB, ldb |-> n.ldb, strideB |-> n.strideB,
   C |-> n.C, offC |-> n.offC, ldc |-> n.ldc, strideC |-> n.strideC,
   batchCount |-> n.batchCount]

\* The body of hgemm3D / sgemm3D / dgemm3D; fn is the strided-batch primitive.
Gemm3D(r, lib, fn) ==
  IF fn \notin lib THEN <<Return("GA_DEVSUP_ERROR")>>
  ELSE IF GemmLarge(r) THEN <<Return("GA_XLARGE_ERROR")>>
  ELSE
    LET c == gpudata[r.A].ctx
        n == SwapAB3D(r)
    IN  << Enter(c),
           GA_CUDA_EXIT_ON_ERROR(c, cuda_wait(n.A, CUDA_WAIT_READ)),
           GA_CUDA_EXIT_ON_ERROR(c, cuda_wait(n.B, CUDA_WAIT_READ)),
           GA_CUDA_EXIT_ON_ERROR(c, cuda_wait(n.C, CUDA_WAIT_ALL)),
           KeepErr(c, Cublas(fn, {n.A, n.B, n.C}, {n.C}, Gemm3DArgs(n))),
           IfErr(c),
           GA_CUDA_EXIT_ON_ERROR(c, cuda_record(n.A, CUDA_WAIT_READ)),
           GA_CUDA_EXIT_ON_ERROR(c, cuda_record(n.B, CUDA_WAIT_READ)),
           GA_CUDA_EXIT_ON_ERROR(c, cuda_record(n.C, CUDA_WAIT_ALL)),
           Exit(c),
           Return("GA_NO_ERROR") >>

hgemm3D(r, lib) == Gemm3D(r, lib, "cublasHgemmStridedBatched")
sgemm3D(r, lib) == Gemm3D(r, lib, "cublasSgemmStridedBatched")
dgemm3D(r, lib) == Gemm3D(r, lib, "cublasDgemmStridedBatched")

(* ------------------------ pointer-batched gemm ------------------------ *)
threshold == 650

RECURSIVE Concat(_)
Concat(ss) == IF ss = << >> THEN << >> ELSE Head(ss) \o Concat(Tail(ss))

\* for (i = 0; i < batchCount; i++) body(i)
Range(n) == [i \in 1..n |-> i]

\* if (order == cb_c) { swap A and B }: the arrays and the offset arrays.
SwapABBatch(r) == SwapAB(r)

\* Scratch statements: gpudata_alloc / buffer_alloc, gpudata_write,
\* gpudata_release / buffer_release.
Alloc(fn, slot, c, onfail) ==
  [Stmt("alloc") EXCEPT !.fn = fn, !.slot = slot, !.ctx = c, !.onfail = onfail]
Write(slot, c, onfail) ==
  [Stmt("gpudata_write") EXCEPT !.slot = slot, !.ctx = c, !.onfail = onfail]
Release(fn, slot) == [Stmt("release") EXCEPT !.fn = fn, !.slot = slot]

\* T_l: the host array of the 3 * batchCount operand pointers.
T_l(n) ==
  [i \in 1..(3 * n.batchCount) |->
     IF i <= n.batchCount THEN <<n.A[i], n.offA[i]>>
     ELSE IF i <= 2 * n.batchCount
          THEN <<n.B[i - n.batchCount], n.offB[i - n.batchCount]>>
          ELSE <<n.C[i - 2 * n.batchCount], n.offC[i - 2 * n.batchCount]>>]

SetOf(s) == {s[i] : i \in DOMAIN s}

\* Fault: a product equal to the cube of the threshold takes the branch of
\* the single calls.
GemmBatch_from_cube(r, fn1, fnB) ==
  IF GemmLarge(r) THEN <<Return("GA_XLARGE_ERROR")>>
  ELSE
    LET c == gpudata[r.A[1]].ctx
        n == SwapABBatch(r)
        waits(i) ==
          << GA_CUDA_EXIT_ON_ERROR(c, cuda_wait(n.A[i], CUDA_WAIT_READ)),
             GA_CUDA_EXIT_ON_ERROR(c, cuda_wait(n.B[i], CUDA_WAIT_READ)),
             GA_CUDA_EXIT_ON_ERROR(c, cuda_wait(n.C[i], CUDA_WAIT_ALL)) >>
        records(i) ==
          << GA_CUDA_EXIT_ON_ERROR(c, cuda_record(n.A[i], CUDA_WAIT_READ)),
             GA_CUDA_EXIT_ON_ERROR(c, cuda_record(n.B[i], CUDA_WAIT_READ)),
             GA_CUDA_EXIT_ON_ERROR(c, cuda_record(n.C[i], CUDA_WAIT_ALL)) >>
        item(i) ==
          [transA |-> convT(n.transA), transB |-> convT(n.transB),
           M |-> n.M, N |-> n.N, K |-> n.K,
           A |-> n.A[i], offA |-> n.offA[i], lda |-> n.lda,
           B |-> n.B[i], offB |-> n.offB[i], ldb |-> n.ldb,
           C |-> n.C[i], offC |-> n.offC[i], ldc |-> n.ldc]
        batched ==
          [transA |-> convT(n.transA), transB |-> convT(n.transB),
           M |-> n.M, N |-> n.N, K |-> n.K,
           Aa |-> <<"Ta", 0>>, lda |-> n.lda,
           Ba |-> <<"Ta", n.batchCount>>, ldb |-> n.ldb,
           Ca |-> <<"Ta", 2 * n.batchCount>>, ldc |-> n.ldc,
           batchCount |-> n.batchCount, T_l |-> T_l(n)]
    IN
      <<Enter(c)>> \o
      (IF Mul(Mul(n.M, n.N), n.K) >= threshold * threshold * threshold
       THEN Concat([i \in 1..n.batchCount |->
              waits(i) \o
              << CUBLAS_EXIT_ON_ERROR(c,
                   Cublas(fn1, {n.A[i], n.B[i], n.C[i]}, {n.C[i]}, item(i))) >> \o
              records(i)])
       ELSE Concat([i \in 1..n.batchCount |-> waits(i)]) \o
            << Alloc("gpudata_alloc", "Ta", c, <<Exit(c)>>),
               Write("Ta", c, <<Release("gpudata_release", "Ta"), Exit(c)>>),
               KeepErr(c, Cublas(fnB, SetOf(n.A) \cup SetOf(n.B) \cup SetOf(n.C),
                              SetOf(n.C), batched)),
               Release("gpudata_release", "Ta"),
               IfErr(c) >> \o
            Concat([i \in 1..n.batchCount |-> records(i)])) \o
      <<Exit(c), Return("GA_NO_ERROR")>>

\* The body of sgemmBatch / dgemmBatch; fn1 is the single gemm, fnB the
\* batched one.
GemmBatch(r, fn1, fnB) ==
  IF GemmLarge(r) THEN <<Return("GA_XLARGE_ERROR")>>
  ELSE
    LET c == gpudata[r.A[1]].ctx
        n == SwapABBatch(r)
        waits(i) ==
          << GA_CUDA_EXIT_ON_ERROR(c, cuda_wait(n.A[i], CUDA_WAIT_READ)),
             GA_CUDA_EXIT_ON_ERROR(c, cuda_wait(n.B[i], CUDA_WAIT_READ)),
             GA_CUDA_EXIT_ON_ERROR(c, cuda_wait(n.C[i], CUDA_WAIT_ALL)) >>
        records(i) ==
          << GA_CUDA_EXIT_ON_ERROR(c, cuda_record(n.A[i], CUDA_WAIT_READ)),
             GA_CUDA_EXIT_ON_ERROR(c, cuda_record(n.B[i], CUDA_WAIT_READ)),
             GA_CUDA_EXIT_ON_ERROR(c, cuda_record(n.C[i], CUDA_WAIT_ALL)) >>
        item(i) ==
          [transA |-> convT(n.transA), transB |-> convT(n.transB),
           M |-> n.M, N |-> n.N, K |-> n.K,
           A |-> n.A[i], offA |-> n.offA[i], lda |-> n.lda,
           B |-> n.B[i], offB |-> n.offB[i], ldb |-> n.ldb,
           C |-> n.C[i], offC |-> n.offC[i], ldc |-> n.ldc]
        batched ==
          [transA |-> convT(n.transA), transB |-> convT(n.transB),
           M |-> n.M, N |-> n.N, K |-> n.K,
           Aa |-> <<"Ta", 0>>, lda |-> n.lda,
           Ba |-> <<"Ta", n.batchCount>>, ldb |-> n.ldb,
           Ca |-> <<"Ta", 2 * n.batchCount>>, ldc |-> n.ldc,
           batchCount |-> n.batchCount, T_l |-> T_l(n)]
    IN
      <<Enter(c)>> \o
      (IF Mul(Mul(n.M, n.N), n.K) > threshold * threshold * threshold
       THEN Concat([i \in 1..n.batchCount |->
              waits(i) \o
              << CUBLAS_EXIT_ON_ERROR(c,
                   Cublas(fn1, {n.A[i], n.B[i], n.C[i]}, {n.C[i]}, item(i))) >> \o
              records(i)])
       ELSE Concat([i \in 1..n.batchCount |-> waits(i)]) \o
            << Alloc("gpudata_alloc", "Ta", c, <<Exit(c)>>),
               Write("Ta", c, <<Release("gpudata_release", "Ta"), Exit(c)>>),
               KeepErr(c, Cublas(fnB, SetOf(n.A) \cup SetOf(n.B) \cup SetOf(n.C),
                              SetOf(n.C), batched)),
               Release("gpudata_release", "Ta"),
               IfErr(c) >> \o
            Concat([i \in 1..n.batchCount |-> records(i)])) \o
      <<Exit(c), Return("GA_NO_ERROR")>>

sgemmBatch(r) == GemmBatch(r, "cublasSgemm", "cublasSgemmBatched")
dgemmBatch(r) == GemmBatch(r, "cublasDgemm", "cublasDgemmBatched")

(* -------------------------------- dot --------------------------------- *)
GetPointerMode == Stmt("cublasGetPointerMode")
SetPointerMode(mode) == [Stmt("cublasSetPointerMode") EXCEPT !.args = mode]

\* Fault: a dot that enters the context only after its waits.
Dot_enter_late(r, fn) ==
  IF LARGE_VAL(r.N) THEN <<Return("GA_XLARGE_ERROR")>>
  ELSE
    LET c == gpudata[r.X].ctx
    IN  << [cuda_wait(r.X, CUDA_WAIT_READ) EXCEPT !.ctx = c],
           [cuda_wait(r.Y, CUDA_WAIT_READ) EXCEPT !.ctx = c],
           [cuda_wait(r.Z, CUDA_WAIT_WRITE) EXCEPT !.ctx = c],
           Enter(c),
           CUBLAS_EXIT_ON_ERROR(c, GetPointerMode),
           CUBLAS_EXIT_ON_ERROR(c, SetPointerMode("CUBLAS_POINTER_MODE_DEVICE")),
           CUBLAS_EXIT_ON_ERROR(c,
             Cublas(fn, {r.X, r.Y}, {r.Z},
                    [N |-> r.N, X |-> r.X, offX |-> r.offX, incX |-> r.incX,
                     Y |-> r.Y, offY |-> r.offY, incY |-> r.incY,
                     Z |-> r.Z, offZ |-> r.offZ])),
           CUBLAS_EXIT_ON_ERROR(c, SetPointerMode("pmode")),
           GA_CUDA_EXIT_ON_ERROR(c, cuda_record(r.X, CUDA_WAIT_READ)),
           GA_CUDA_EXIT_ON_ERROR(c, cuda_record(r.Y, CUDA_WAIT_READ)),
           GA_CUDA_EXIT_ON_ERROR(c, cuda_record(r.Z, CUDA_WAIT_WRITE)),
           Exit(c),
           Return("GA_NO_ERROR") >>

\* The body of sdot / ddot.
Dot(r, fn) ==
  IF LARGE_VAL(r.N) THEN <<Return("GA_XLARGE_ERROR")>>
  ELSE
    LET c == gpudata[r.X].ctx
    IN  << Enter(c),
           GA_CUDA_EXIT_ON_ERROR(c, cuda_wait(r.X, CUDA_WAIT_READ)),
           GA_CUDA_EXIT_ON_ERROR(c, cuda_wait(r.Y, CUDA_WAIT_READ)),
           GA_CUDA_EXIT_ON_ERROR(c, cuda_wait(r.Z, CUDA_WAIT_WRITE)),
           CUBLAS_EXIT_ON_ERROR(c, GetPointerMode),
           CUBLAS_EXIT_ON_ERROR(c, SetPointerMode("CUBLAS_POINTER_MODE_DEVICE")),
           CUBLAS_EXIT_ON_ERROR(c,
             Cublas(fn, {r.X, r.Y}, {r.Z},
                    [N |-> r.N, X |-> r.X, offX |-> r.offX, incX |-> r.incX,
                     Y |-> r.Y, offY |-> r.offY, incY |-> r.incY,
                     Z |-> r.Z, offZ |-> r.offZ])),
           CUBLAS_EXIT_ON_ERROR(c, SetPointerMode("pmode")),
           GA_CUDA_EXIT_ON_ERROR(c, cuda_record(r.X, CUDA_WAIT_READ)),
           GA_CUDA_EXIT_ON_ERROR(c, cuda_record(r.Y, CUDA_WAIT_READ)),
           GA_CUDA_EXIT_ON_ERROR(c, cuda_record(r.Z, CUDA_WAIT_WRITE)),
           Exit(c),
           Return("GA_NO_ERROR") >>

sdot(r) == Dot(r, "cublasSdot")
ddot(r) == Dot(r, "cublasDdot")

(* -------------------------------- gemv -------------------------------- *)
GemvLarge(r) ==
  \/ LARGE_VAL(r.M) \/ LARGE_VAL(r.N) \/ LARGE_VAL(Mul(r.M, r.N))
  \/ LARGE_VAL(r.lda) \/ LARGE_VAL(r.incX) \/ LARGE_VAL(r.incY)

\* Fault: a normalization that leaves the transpose flag as it is.
SwapGemv_keep_trans(r) ==
  IF r.order = "cb_c" THEN [r EXCEPT !.N = r.M, !.M = r.N] ELSE r

\* if (order == cb_c) { swap M and N; no_trans becomes trans, anything
\* else becomes no_trans }
SwapGemv(r) ==
  IF r.order = "cb_c"
  THEN [r EXCEPT !.N = r.M, !.M = r.N,
                 !.transA = IF r.transA = "cb_no_trans" THEN "cb_trans"
                            ELSE "cb_no_trans"]
  ELSE r

\* Fault: a gemv that does not wait for Y.
Gemv_no_wait_Y(r, fn) ==
  IF GemvLarge(r) THEN <<Return("GA_XLARGE_ERROR")>>
  ELSE
    LET c == gpudata[r.A].ctx
        n == SwapGemv(r)
    IN  << Enter(c),
           GA_CUDA_EXIT_ON_ERROR(c, cuda_wait(n.A, CUDA_WAIT_READ)),
           GA_CUDA_EXIT_ON_ERROR(c, cuda_wait(n.X, CUDA_WAIT_READ)),
           CUBLAS_EXIT_ON_ERROR(c,
             Cublas(fn, {n.A, n.X, n.Y}, {n.Y},
                    [transA |-> convT(n.transA), M |-> n.M, N |-> n.N,
                     A |-> n.A, offA |-> n.offA, lda |-> n.lda,
                     X |-> n.X, offX |-> n.offX, incX |-> n.incX,
                     Y |-> n.Y, offY |-> n.offY, incY |-> n.incY])),
           GA_CUDA_EXIT_ON_ERROR(c, cuda_record(n.A, CUDA_WAIT_READ)),
           GA_CUDA_EXIT_ON_ERROR(c, cuda_record(n.X, CUDA_WAIT_READ)),
           GA_CUDA_EXIT_ON_ERROR(c, cuda_record(n.Y, CUDA_WAIT_ALL)),
           Exit(c),
           Return("GA_NO_ERROR") >>

\* The body of sgemv / dgemv.
Gemv(r, fn) ==
  IF GemvLarge(r) THEN <<Return("GA_XLARGE_ERROR")>>
  ELSE
    LET c == gpudata[r.A].ctx
        n == SwapGemv(r)
    IN  << Enter(c),
           GA_CUDA_EXIT_ON_ERROR(c, cuda_wait(n.A, CUDA_WAIT_READ)),
           GA_CUDA_EXIT_ON_ERROR(c, cuda_wait(n.X, CUDA_WAIT_READ)),
           GA_CUDA_EXIT_ON_ERROR(c, cuda_wait(n.Y, CUDA_WAIT_ALL)),
           CUBLAS_EXIT_ON_ERROR(c,
             Cublas(fn, {n.A, n.X, n.Y}, {n.Y},
                    [transA |-> convT(n.transA), M |-> n.M, N |-> n.N,
                     A |-> n.A, offA |-> n.offA, lda |-> n.lda,
                     X |-> n.X, offX |-> n.offX, incX |-> n.incX,
                     Y |-> n.Y, offY |-> n.offY, incY |-> n.incY])),
           GA_CUDA_EXIT_ON_ERROR(c, cuda_record(n.A, CUDA_WAIT_READ)),
           GA_CUDA_EXIT_ON_ERROR(c, cuda_record(n.X, CUDA_WAIT_READ)),
           GA_CUDA_EXIT_ON_ERROR(c, cuda_record(n.Y, CUDA_WAIT_ALL)),
           Exit(c),
           Return("GA_NO_ERROR") >>

sgemv(r) == Gemv(r, "cublasSgemv")
dgemv(r) == Gemv(r, "cublasDgemv")

(* ----------------------------- gemvBatch ------------------------------ *)
\* (a + d - 1) / d on size_t, for a + d - 1 below 2^64.
CeilDiv(a, d) == (a \div d) + (IF a % d = 0 THEN 0 ELSE 1)

\* err = GpuKernel_call(k, n, gs, ls, 0, args)
Kernel(k, nd, gs, ls, reads, writes, args) ==
  [Stmt("kernel") EXCEPT !.fn = k,
     !.acc = {<<b, "r">> : b \in reads} \cup {<<b, "w">> : b \in writes},
     !.args = [n |-> nd, gs |-> gs, ls |-> ls, args |-> args]]

\* The launch configuration of sgemvBatch / dgemvBatch.
GemvBatchLs(M, batchCount) ==
  IF M < 512 THEN <<32, IF batchCount > 16 THEN 16 ELSE batchCount>>
  ELSE <<512, 1>>

GemvBatchGs(M, batchCount) ==
  LET ls == GemvBatchLs(M, batchCount)
      gs0 == CeilDiv(M, ls[1])
      gs1 == CeilDiv(batchCount, ls[2])
  IN  IF Mul(gs0, gs1) \div 65535 # 0 THEN <<gs0, 65535 \div gs0>>
      ELSE <<gs0, gs1>>

\* Fault: the failure of the third allocation releases only the first.
ScratchLaunch_leak(c, k) ==
  << Alloc("buffer_alloc", "Aa", c, << >>),
     Alloc("buffer_alloc", "xa", c, <<Release("buffer_release", "Aa")>>),
     Alloc("buffer_alloc", "ya", c, <<Release("buffer_release", "Aa")>>),
     KeepErr(c, k),
     Release("buffer_release", "Aa"),
     Release("buffer_release", "xa"),
     Release("buffer_release", "ya"),
     IfErr(c) >>

\* The three scratch pointer arrays and the kernel launch shared by the
\* batched gemv and ger entry points.
ScratchLaunch(c, k) ==
  << Alloc("buffer_alloc", "Aa", c, << >>),
     Alloc("buffer_alloc", "xa", c, <<Release("buffer_release", "Aa")>>),
     Alloc("buffer_alloc", "ya", c,
           <<Release("buffer_release", "Aa"), Release("buffer_release", "xa")>>),
     KeepErr(c, k),
     Release("buffer_release", "Aa"),
     Release("buffer_release", "xa"),
     Release("buffer_release", "ya"),
     IfErr(c) >>

\* Fault: a batched gemv that tests alpha and lets any beta through.
GemvBatch_any_beta(r, kN, kT) ==
  LET c == gpudata[r.A[1]].ctx
      ls == GemvBatchLs(r.M, r.batchCount)
      gs == GemvBatchGs(r.M, r.batchCount)
      n == SwapGemv(r)
      bufs == SetOf(n.A) \cup SetOf(n.x) \cup SetOf(n.y)
      args == [A_l |-> [i \in 1..n.batchCount |-> <<n.A[i], n.offA[i]>>],
               lda |-> n.lda,
               x_l |-> [i \in 1..n.batchCount |-> <<n.x[i], n.offX[i]>>],
               incX |-> n.incX,
               y_l |-> [i \in 1..n.batchCount |-> <<n.y[i], n.offY[i]>>],
               incY |-> n.incY,
               batchCount |-> n.batchCount, M |-> n.M, N |-> n.N]
  IN
    IF r.flags # 0 THEN <<Return("GA_INVALID_ERROR")>>
    ELSE IF r.alpha # 1 THEN <<Return("GA_UNSUPPORTED_ERROR")>>
    ELSE
      <<Enter(c)>> \o
      Concat([i \in 1..n.batchCount |->
        << GA_CUDA_EXIT_ON_ERROR(c, cuda_wait(n.A[i], CUDA_WAIT_READ)),
           GA_CUDA_EXIT_ON_ERROR(c, cuda_wait(n.x[i], CUDA_WAIT_READ)),
           GA_CUDA_EXIT_ON_ERROR(c, cuda_wait(n.y[i], CUDA_WAIT_ALL)) >>]) \o
      ScratchLaunch(c,
        Kernel(IF n.transA = "cb_no_trans" THEN kN ELSE kT,
               2, gs, ls, bufs, SetOf(n.y), args)) \o
      Concat([i \in 1..n.batchCount |->
        << GA_CUDA_EXIT_ON_ERROR(c, cuda_record(n.A[i], CUDA_WAIT_READ)),
           GA_CUDA_EXIT_ON_ERROR(c, cuda_record(n.x[i], CUDA_WAIT_READ)),
           GA_CUDA_EXIT_ON_ERROR(c, cuda_record(n.y[i], CUDA_WAIT_ALL)) >>]) \o
      <<Exit(c), Return("GA_NO_ERROR")>>

\* The body of sgemvBatch / dgemvBatch; kN and kT are the two kernels.
GemvBatch(r, kN, kT) ==
  LET c == gpudata[r.A[1]].ctx
      ls == GemvBatchLs(r.M, r.batchCount)
      gs == GemvBatchGs(r.M, r.batchCount)
      n == SwapGemv(r)
      bufs == SetOf(n.A) \cup SetOf(n.x) \cup SetOf(n.y)
      args == [A_l |-> [i \in 1..n.batchCount |-> <<n.A[i], n.offA[i]>>],
               lda |-> n.lda,
               x_l |-> [i \in 1..n.batchCount |-> <<n.x[i], n.offX[i]>>],
               incX |-> n.incX,
               y_l |-> [i \in 1..n.batchCount |-> <<n.y[i], n.offY[i]>>],
               incY |-> n.incY,
               batchCount |-> n.batchCount, M |-> n.M, N |-> n.N]
  IN
    IF r.flags # 0 THEN <<Return("GA_INVALID_ERROR")>>
    ELSE IF r.alpha # 1 \/ r.beta # 1 THEN <<Return("GA_UNSUPPORTED_ERROR")>>
    ELSE
      <<Enter(c)>> \o
      Concat([i \in 1..n.batchCount |->
        << GA_CUDA_EXIT_ON_ERROR(c, cuda_wait(n.A[i], CUDA_WAIT_READ)),
           GA_CUDA_EXIT_ON_ERROR(c, cuda_wait(n.x[i], CUDA_WAIT_READ)),
           GA_CUDA_EXIT_ON_ERROR(c, cuda_wait(n.y[i], CUDA_WAIT_ALL)) >>]) \o
      ScratchLaunch(c,
        Kernel(IF n.transA = "cb_no_trans" THEN kN ELSE kT,
               2, gs, ls, bufs, SetOf(n.y), args)) \o
      Concat([i \in 1..n.batchCount |->
        << GA_CUDA_EXIT_ON_ERROR(c, cuda_record(n.A[i], CUDA_WAIT_READ)),
           GA_CUDA_EXIT_ON_ERROR(c, cuda_record(n.x[i], CUDA_WAIT_READ)),
           GA_CUDA_EXIT_ON_ERROR(c, cuda_record(n.y[i], CUDA_WAIT_ALL)) >>]) \o
      <<Exit(c), Return("GA_NO_ERROR")>>

sgemvBatch(r) == GemvBatch(r, "sgemvBH_N_a1_b1_small", "sgemvBH_T_a1_b1_small")
dgemvBatch(r) == GemvBatch(r, "dgemvBH_N_a1_b1_small", "dgemvBH_T_a1_b1_small")

(* -------------------------------- ger --------------------------------- *)
GerLarge(r) ==
  \/ LARGE_VAL(r.M) \/ LARGE_VAL(r.N) \/ LARGE_VAL(Mul(r.M, r.N))
  \/ LARGE_VAL(r.lda) \/ LARGE_VAL(r.incX) \/ LARGE_VAL(r.incY)

\* Fault: a normalization that also exchanges A with X.
SwapGer_with_A(r) ==
  IF r.order = "cb_c"
  THEN [r EXCEPT !.M = r.N, !.N = r.M, !.offX = r.offY, !.offY = r.offX,
                 !.incX = r.incY, !.incY = r.incX, !.X = r.A, !.Y = r.X, !.A = r.Y]
  ELSE r

\* if (order == cb_c) { swap M and N, X and Y with offsets and increments }
SwapGer(r) ==
  IF r.order = "cb_c"
  THEN [r EXCEPT !.M = r.N, !.N = r.M, !.offX = r.offY, !.offY = r.offX,
                 !.incX = r.incY, !.incY = r.incX, !.X = r.Y, !.Y = r.X]
  ELSE r

\* The body of sger / dger.
Ger(r, fn) ==
  IF GerLarge(r) THEN <<Return("GA_XLARGE_ERROR")>>
  ELSE
    LET c == gpudata[r.X].ctx
        n == SwapGer(r)
    IN  << Enter(c),
           GA_CUDA_EXIT_ON_ERROR(c, cuda_wait(n.X, CUDA_WAIT_READ)),
           GA_CUDA_EXIT_ON_ERROR(c, cuda_wait(n.Y, CUDA_WAIT_READ)),
           GA_CUDA_EXIT_ON_ERROR(c, cuda_wait(n.A, CUDA_WAIT_ALL)),
           CUBLAS_EXIT_ON_ERROR(c,
             Cublas(fn, {n.X, n.Y, n.A}, {n.A},
                    [M |-> n.M, N |-> n.N,
                     X |-> n.X, offX |-> n.offX, incX |-> n.incX,
                     Y |-> n.Y, offY |-> n.offY, incY |-> n.incY,
                     A |-> n.A, offA |-> n.offA, lda |-> n.lda])),
           GA_CUDA_EXIT_ON_ERROR(c, cuda_record(n.X, CUDA_WAIT_READ)),
           GA_CUDA_EXIT_ON_ERROR(c, cuda_record(n.Y, CUDA_WAIT_READ)),
           GA_CUDA_EXIT_ON_ERROR(c, cuda_record(n.A, CUDA_WAIT_ALL)),
           Exit(c),
           Return("GA_NO_ERROR") >>

sger(r) == Ger(r, "cublasSger")
dger(r) == Ger(r, "cublasDger")

(* ----------------------------- gerBatch ------------------------------- *)
\* The launch configuration of sgerBatch / dgerBatch: <<ls, gs, ok>>, ok
\* FALSE for "Input too large".
GerBatchConfig(M, N, incX, batchCount) ==
  LET a == IF incX = 1 THEN 1 ELSE 2      \* the dimension cut to 32
      b == IF incX = 1 THEN 2 ELSE 1      \* the dimension cut to 16
      ls0 == <<M, N, 1>>
      gs0 == <<1, 1, batchCount>>
      ls1 == IF ls0[a] > 32 THEN [ls0 EXCEPT ![a] = 32] ELSE ls0
      gs1 == IF ls0[a] > 32 THEN [gs0 EXCEPT ![a] = CeilDiv(ls0[a], 32)] ELSE gs0
      cut == Mul(ls1[1], ls1[2]) > 512
      ls2 == IF cut THEN [ls1 EXCEPT ![b] = 16] ELSE ls1
      gs2 == IF cut THEN [gs1 EXCEPT ![b] = CeilDiv(ls1[b], 16)] ELSE gs1
      g12 == Mul(gs2[1], gs2[2])
  IN  IF Mul(g12, gs2[3]) > 65535
      THEN IF g12 > 65535 THEN <<ls2, gs2, FALSE>>
           ELSE <<ls2, [gs2 EXCEPT ![3] = 65535 \div g12], TRUE>>
      ELSE <<ls2, gs2, TRUE>>

\* if (order == cb_c) { swap M and N, x and y with offsets and increments }
SwapGerBatch(r) ==
  IF r.order = "cb_c"
  THEN [r EXCEPT !.M = r.N, !.N = r.M, !.offX = r.offY, !.offY = r.offX,
                 !.incX = r.incY, !.incY = r.incX, !.x = r.y, !.y = r.x]
  ELSE r

\* The body of sgerBatch / dgerBatch; k is the kernel it launches.
GerBatch(r, k) ==
  LET c == gpudata[r.x[1]].ctx
      cfg == GerBatchConfig(r.M, r.N, r.incX, r.batchCount)
      n == SwapGerBatch(r)
      bufs == SetOf(n.A) \cup SetOf(n.x) \cup SetOf(n.y)
      args == [x_l |-> [i \in 1..n.batchCount |-> <<n.x[i], n.offX[i]>>],
               incX |-> n.incX,
               y_l |-> [i \in 1..n.batchCount |-> <<n.y[i], n.offY[i]>>],
               incY |-> n.incY, alpha |-> n.alpha,
               A_l |-> [i \in 1..n.batchCount |-> <<n.A[i], n.offA[i]>>],
               lda |-> n.lda,
               batchCount |-> n.batchCount, M |-> n.M, N |-> n.N]
  IN
    IF r.flags # 0 THEN <<Return("GA_INVALID_ERROR")>>
    ELSE IF ~cfg[3] THEN <<Return("GA_VALUE_ERROR")>>
    ELSE
      <<Enter(c)>> \o
      Concat([i \in 1..n.batchCount |->
        << GA_CUDA_EXIT_ON_ERROR(c, cuda_wait(n.A[i], CUDA_WAIT_ALL)),
           GA_CUDA_EXIT_ON_ERROR(c, cuda_wait(n.x[i], CUDA_WAIT_READ)),
           GA_CUDA_EXIT_ON_ERROR(c, cuda_wait(n.y[i], CUDA_WAIT_READ)) >>]) \o
      ScratchLaunch(c, Kernel(k, 3, cfg[2], cfg[1], bufs, SetOf(n.A), args)) \o
      Concat([i \in 1..n.batchCount |->
        << GA_CUDA_EXIT_ON_ERROR(c, cuda_record(n.A[i], CUDA_WAIT_READ)),
           GA_CUDA_EXIT_ON_ERROR(c, cuda_record(n.x[i], CUDA_WAIT_READ)),
           GA_CUDA_EXIT_ON_ERROR(c, cuda_record(n.y[i], CUDA_WAIT_ALL)) >>]) \o
      <<Exit(c), Return("GA_NO_ERROR")>>

sgerBatch(r) == GerBatch(r, "sgerBH_gen_small")
dgerBatch(r) == GerBatch(r, "sgerBH_gen_small")

(* ---------------------------- collectives ----------------------------- *)
SizeBits == 8                       \* width of size_t in the model
SizeMod == 2 ^ SizeBits

\* size_t subtraction and multiplication.
SizeSub(a, b) == (a - b) % SizeMod
SizeMul(a, b) == (a * b) % SizeMod

nccl_NUM_OPS == "nccl_NUM_OPS"
nccl_NUM_TYPES == "nccl_NUM_TYPES"

\* Fault: a conversion that falls back to the sum for a code it does not
\* know.
convert_reduce_op_fallback(opcode) ==
  CASE opcode = "GA_SUM" -> "ncclSum"
    [] opcode = "GA_PROD" -> "ncclProd"
    [] opcode = "GA_MAX" -> "ncclMax"
    [] opcode = "GA_MIN" -> "ncclMin"
    [] OTHER -> "ncclSum"

\* Fault: a conversion that takes the sum for the product.
convert_reduce_op_prod(opcode) ==
  CASE opcode \in {"GA_SUM", "GA_PROD"} -> "ncclProd"
    [] opcode = "GA_MAX" -> "ncclMax"
    [] opcode = "GA_MIN" -> "ncclMin"
    [] OTHER -> nccl_NUM_OPS

convert_reduce_op(opcode) ==
  CASE opcode = "GA_SUM" -> "ncclSum"
    [] opcode = "GA_PROD" -> "ncclProd"
    [] opcode = "GA_MAX" -> "ncclMax"
    [] opcode = "GA_MIN" -> "ncclMin"
    [] OTHER -> nccl_NUM_OPS

\* has_half: the build defines CUDA_HAS_HALF.
convert_data_type(typecode, has_half) ==
  CASE typecode = "GA_BYTE" -> "ncclChar"
    [] typecode = "GA_INT" -> "ncclInt"
    [] typecode = "GA_HALF" /\ has_half -> "ncclHalf"
    [] typecode = "GA_FLOAT" -> "ncclFloat"
    [] typecode = "GA_DOUBLE" -> "ncclDouble"
    [] typecode = "GA_LONG" -> "ncclInt64"
    [] typecode = "GA_ULONG" -> "ncclUint64"
    [] OTHER -> nccl_NUM_TYPES

\* The byte width of one element of a type code.
gpuarray_get_elsize(typecode) ==
  CASE typecode = "GA_BYTE" -> 1
    [] typecode = "GA_HALF" -> 2
    [] typecode \in {"GA_INT", "GA_UINT", "GA_FLOAT"} -> 4
    [] typecode \in {"GA_DOUBLE", "GA_LONG", "GA_ULONG"} -> 8
    [] OTHER -> 0

\* assert(cond); deref holds the pointers the condition reads through.
assert(cond, deref) == [Stmt("assert") EXCEPT !.args = [cond |-> cond, deref |-> deref]]

\* GA_CHECK(cmd): return the error of cmd, else go on with rest.
GA_CHECK(cmd, rest) ==
  IF cmd # << >> /\ cmd[Len(cmd)].op = "return" THEN cmd ELSE cmd \o rest

\* GA_EXIT_ON_ERROR(ctx, cmd): on an error of cmd, cuda_exit(ctx) and return it.
GA_EXIT_ON_ERROR(c, s) == [s EXCEPT !.ctx = c, !.onfail = <<Exit(c)>>]

\* ctx->comm_error = ...
SetCommError(c, str) == [Stmt("comm_error") EXCEPT !.ctx = c, !.args = str]

\* Fault: the failure branch does not keep the backend's message.
NCCL_EXIT_ON_ERROR_silent(c, s) == [s EXCEPT !.ctx = c, !.onfail = <<Exit(c)>>]

\* NCCL_EXIT_ON_ERROR(ctx, cmd): on failure cuda_exit(ctx), keep the error
\* string and return GA_COMM_ERROR; on success keep the success string.
NCCL_EXIT_ON_ERROR(c, s) ==
  [s EXCEPT !.ctx = c, !.onfail = <<Exit(c), SetCommError(c, "nccl_err")>>]

\* NCCL_CHKFAIL(ctx, cmd): the whole body of get_count and get_rank.
NCCL_CHKFAIL(c, fn) == [Stmt("nccl_query") EXCEPT !.ctx = c, !.fn = fn]

Nccl(fn, reads, writes, args) ==
  [Stmt("nccl") EXCEPT !.fn = fn,
     !.acc = {<<b, "r">> : b \in reads} \cup {<<b, "w">> : b \in writes},
     !.args = args]

get_count(cm) == <<NCCL_CHKFAIL(cm.ctx, "ncclCommCount")>>
get_rank(cm) == <<NCCL_CHKFAIL(cm.ctx, "ncclCommUserRank")>>

\* check_restrictions; dest = NULL for no destination, wantType / wantOp
\* for datatype != NULL / op != NULL.  The result is the statements it
\* executes: a return of GA_VALUE_ERROR, or its two assertions.
check_restrictions(src, offsrc, dest, offdest, count, typecode, opcode, cm, wantType, wantOp, has_half) ==
  LET op_size == SizeMul(count, gpuarray_get_elsize(typecode))
  IN
    IF gpudata[src].ctx # cm.ctx THEN <<Return("GA_VALUE_ERROR")>>
    ELSE IF dest # NULL /\ gpudata[dest].ctx # cm.ctx
      THEN <<Return("GA_VALUE_ERROR")>>
    ELSE IF wantType /\ convert_data_type(typecode, has_half) = nccl_NUM_TYPES
      THEN <<Return("GA_VALUE_ERROR")>>
    ELSE IF wantOp /\ convert_reduce_op(opcode) = nccl_NUM_OPS
      THEN <<Return("GA_VALUE_ERROR")>>
    ELSE IF SizeSub(gpudata[src].sz, offsrc) < op_size
      THEN <<Return("GA_VALUE_ERROR")>>
    ELSE IF dest # NULL /\ SizeSub(gpudata[dest].sz, offdest) < op_size
      THEN <<Return("GA_VALUE_ERROR")>>
    ELSE
      << assert(~(offsrc > gpudata[src].sz), {src}),
         \* (dest != NULL & offdest > dest->sz): both sides are evaluated
         assert(~(dest # NULL /\ offdest > gpudata[IF dest = NULL THEN src ELSE dest].sz),
                {dest}) >>

reduce(r, cm, has_half) ==
  LET c == cm.ctx
      isroot == cm.rank = r.root
      dst == IF isroot THEN r.dest ELSE NULL
  IN
    GA_CHECK(get_rank(cm),
    GA_CHECK(check_restrictions(r.src, r.offsrc, dst, r.offdest, r.count,
                                r.typecode, r.opcode, cm, TRUE, TRUE, has_half),
      <<Enter(c), GA_EXIT_ON_ERROR(c, cuda_wait(r.src, CUDA_WAIT_READ))>> \o
      (IF isroot THEN <<GA_EXIT_ON_ERROR(c, cuda_wait(r.dest, CUDA_WAIT_WRITE))>>
       ELSE << >>) \o
      << NCCL_EXIT_ON_ERROR(c,
           Nccl("ncclReduce", {r.src}, IF isroot THEN {r.dest} ELSE {},
                [src |-> <<r.src, r.offsrc>>,
                 dest |-> IF isroot THEN <<r.dest, r.offdest>> ELSE <<NULL, 0>>,
                 count |-> r.count,
                 datatype |-> convert_data_type(r.typecode, has_half),
                 op |-> convert_reduce_op(r.opcode), root |-> r.root])),
         GA_EXIT_ON_ERROR(c, cuda_record(r.src, CUDA_WAIT_READ)) >> \o
      (IF isroot THEN <<GA_EXIT_ON_ERROR(c, cuda_record(r.dest, CUDA_WAIT_WRITE))>>
       ELSE << >>) \o
      <<Exit(c), Return("GA_NO_ERROR")>>))

\* The bracket of all_reduce, reduce_scatter and all_gather.
SrcDestBracket(c, r, call) ==
  << Enter(c),
     GA_EXIT_ON_ERROR(c, cuda_wait(r.src, CUDA_WAIT_READ)),
     GA_EXIT_ON_ERROR(c, cuda_wait(r.dest, CUDA_WAIT_WRITE)),
     NCCL_EXIT_ON_ERROR(c, call),
     GA_EXIT_ON_ERROR(c, cuda_record(r.src, CUDA_WAIT_READ)),
     GA_EXIT_ON_ERROR(c, cuda_record(r.dest, CUDA_WAIT_WRITE)),
     Exit(c),
     Return("GA_NO_ERROR") >>

\* Arguments that address the destination at its start.
NcclArgs_no_offset(r, has_half) ==
  [src |-> <<r.src, r.offsrc>>, dest |-> <<r.dest, 0>>,
   count |-> r.count, datatype |-> convert_data_type(r.typecode, has_half),
   op |-> convert_reduce_op(r.opcode)]

NcclArgs(r, has_half) ==
  [src |-> <<r.src, r.offsrc>>, dest |-> <<r.dest, r.offdest>>,
   count |-> r.count, datatype |-> convert_data_type(r.typecode, has_half),
   op |-> convert_reduce_op(r.opcode)]

all_reduce(r, cm, has_half) ==
  GA_CHECK(check_restrictions(r.src, r.offsrc, r.dest, r.offdest, r.count,
                              r.typecode, r.opcode, cm, TRUE, TRUE, has_half),
    SrcDestBracket(cm.ctx, r,
      Nccl("ncclAllReduce", {r.src}, {r.dest}, NcclArgs(r, has_half))))

\* if ((dest->sz - offdest) < resc_size) return GA_VALUE_ERROR;
\* assert(!(offdest > dest->sz));
DestRoom(r, cm, resc_size) ==
  IF gpudata[r.dest].ctx # cm.ctx THEN <<Return("GA_VALUE_ERROR")>>
  ELSE IF SizeSub(gpudata[r.dest].sz, r.offdest) < resc_size
    THEN <<Return("GA_VALUE_ERROR")>>
  ELSE <<assert(~(r.offdest > gpudata[r.dest].sz), {r.dest})>>

reduce_scatter(r, cm, has_half) ==
  GA_CHECK(get_count(cm),
  GA_CHECK(check_restrictions(r.src, r.offsrc, NULL, 0, r.count * cm.ndev,
                              r.typecode, r.opcode, cm, TRUE, TRUE, has_half),
  GA_CHECK(DestRoom(r, cm, SizeMul(r.count, gpuarray_get_elsize(r.typecode))),
    SrcDestBracket(cm.ctx, r,
      Nccl("ncclReduceScatter", {r.src}, {r.dest}, NcclArgs(r, has_half))))))

broadcast(r, cm, has_half) ==
  LET c == cm.ctx
      isroot == cm.rank = r.root
  IN
    GA_CHECK(check_restrictions(r.array, r.offset, NULL, 0, r.count,
                                r.typecode, 0, cm, TRUE, FALSE, has_half),
      << Enter(c),
         GA_EXIT_ON_ERROR(c, cuda_wait(r.array, CUDA_WAIT_READ)),
         NCCL_EXIT_ON_ERROR(c,
           Nccl("ncclBcast", IF isroot THEN {r.array} ELSE {},
                IF isroot THEN {} ELSE {r.array},
                [buff |-> <<r.array, r.offset>>, count |-> r.count,
                 datatype |-> convert_data_type(r.typecode, has_half),
                 root |-> r.root])),
         GA_EXIT_ON_ERROR(c, cuda_record(r.array, CUDA_WAIT_READ)),
         Exit(c),
         Return("GA_NO_ERROR") >>)

all_gather(r, cm, has_half) ==
  GA_CHECK(check_restrictions(r.src, r.offsrc, NULL, 0, r.count,
                              r.typecode, 0, cm, TRUE, FALSE, has_half),
  \* the destination's context is compared before get_count is called
  IF gpudata[r.dest].ctx # cm.ctx THEN <<Return("GA_VALUE_ERROR")>>
  ELSE
  GA_CHECK(get_count(cm),
  GA_CHECK(DestRoom(r, cm,
             SizeMul(cm.ndev * r.count, gpuarray_get_elsize(r.typecode))),
    SrcDestBracket(cm.ctx, r,
      Nccl("ncclAllGather", {r.src}, {r.dest}, NcclArgs(r, has_half))))))

(* ------------------------- handle lifecycle --------------------------- *)
\* Statements on a blas_handle; slot says which pointer names it: the
\* local variable handle, or ctx->blas_handle.
HandleStmt(op, c, slot) == [Stmt(op) EXCEPT !.ctx = c, !.slot = slot]
Calloc(c) == HandleStmt("calloc", c, "handle")
Free(c, slot) == HandleStmt("free", c, slot)
cublasCreate(c) == HandleStmt("cublasCreate", c, "handle")
cublasDestroy(c) == HandleStmt("cublasDestroy", c, "handle")
cublasSetStream(c) == HandleStmt("cublasSetStream", c, "handle")
GpuKernel_init(c, k) == [HandleStmt("GpuKernel_init", c, "handle") EXCEPT !.fn = k]
GpuKernel_clear(c, k) == [HandleStmt("GpuKernel_clear", c, "handle") EXCEPT !.fn = k]
\* ctx->blas_handle = handle, and ctx->blas_handle = NULL
SetBlasHandle(c, slot) == HandleStmt("blas_handle", c, slot)
\* handle = ctx->blas_handle
LoadBlasHandle(c) == HandleStmt("load_handle", c, "ctx")

\* The kernels of a blas_handle in the order setup builds them.
kernels ==
  << "sgemvBH_N_a1_b1_small", "sgemvBH_T_a1_b1_small",
     "dgemvBH_N_a1_b1_small", "dgemvBH_T_a1_b1_small",
     "sgerBH_gen_small", "dgerBH_gen_small" >>

\* Fault: error labels that clear one kernel more than was built.
SetupUnwind_one_more(c, k) ==
  [i \in 1..k |-> GpuKernel_clear(c, kernels[k + 1 - i])] \o
  <<cublasDestroy(c), Exit(c), Free(c, "handle")>>

\* The labels e1 .. e6 of setup: label k clears the first k - 1 kernels,
\* last built first, then destroys the handle, exits and frees.
SetupUnwind(c, k) ==
  [i \in 1..(k - 1) |-> GpuKernel_clear(c, kernels[k - i])] \o
  <<cublasDestroy(c), Exit(c), Free(c, "handle")>>

\* Fault: setup that does not look for a handle that is there already.
setup_again(c, blas_handle) ==
  << [Calloc(c) EXCEPT !.code = "GA_SYS_ERROR"],
     Enter(c),
     [cublasCreate(c) EXCEPT !.onfail = <<Exit(c), Free(c, "handle")>>],
     [cublasSetStream(c) EXCEPT !.onfail = SetupUnwind(c, 1)],
     [HandleStmt("cublasSetPointerMode", c, "handle") EXCEPT
        !.args = "CUBLAS_POINTER_MODE_HOST", !.onfail = SetupUnwind(c, 1)] >> \o
  [k \in 1..6 |-> [GpuKernel_init(c, kernels[k]) EXCEPT !.onfail = SetupUnwind(c, k)]] \o
  << SetBlasHandle(c, "handle"),
     Exit(c),
     Return("GA_NO_ERROR") >>

\* Fault: setup that leaves the handle on the default stream.
setup_unbound(c, blas_handle) ==
  IF blas_handle # NULL THEN <<Return("GA_NO_ERROR")>>
  ELSE
    << [Calloc(c) EXCEPT !.code = "GA_SYS_ERROR"],
       Enter(c),
       [cublasCreate(c) EXCEPT !.onfail = <<Exit(c), Free(c, "handle")>>],
       [HandleStmt("cublasSetPointerMode", c, "handle") EXCEPT
          !.args = "CUBLAS_POINTER_MODE_HOST", !.onfail = SetupUnwind(c, 1)] >> \o
    [k \in 1..6 |-> [GpuKernel_init(c, kernels[k]) EXCEPT !.onfail = SetupUnwind(c, k)]] \o
    << SetBlasHandle(c, "handle"),
       Exit(c),
       Return("GA_NO_ERROR") >>

setup(c, blas_handle) ==
  IF blas_handle # NULL THEN <<Return("GA_NO_ERROR")>>
  ELSE
    << [Calloc(c) EXCEPT !.code = "GA_SYS_ERROR"],
       Enter(c),
       [cublasCreate(c) EXCEPT !.onfail = <<Exit(c), Free(c, "handle")>>],
       [cublasSetStream(c) EXCEPT !.onfail = SetupUnwind(c, 1)],
       [HandleStmt("cublasSetPointerMode", c, "handle") EXCEPT
          !.args = "CUBLAS_POINTER_MODE_HOST", !.onfail = SetupUnwind(c, 1)] >> \o
    [k \in 1..6 |-> [GpuKernel_init(c, kernels[k]) EXCEPT !.onfail = SetupUnwind(c, k)]] \o
    << SetBlasHandle(c, "handle"),
       Exit(c),
       Return("GA_NO_ERROR") >>

\* Fault: teardown that leaves ctx->blas_handle pointing at the freed handle.
teardown_dangling(c, blas_handle) ==
  IF blas_handle = NULL THEN <<Return("void")>>
  ELSE
    << LoadBlasHandle(c), Enter(c), cublasDestroy(c) >> \o
    [k \in 1..6 |-> GpuKernel_clear(c, kernels[k])] \o
    << Exit(c), Free(c, "ctx"), Return("void") >>

teardown(c, blas_handle) ==
  IF blas_handle = NULL THEN <<Return("void")>>
  ELSE
    << LoadBlasHandle(c), Enter(c), cublasDestroy(c) >> \o
    [k \in 1..6 |-> GpuKernel_clear(c, kernels[k])] \o
    << Exit(c), Free(c, "ctx"), SetBlasHandle(c, "NULL"), Return("void") >>

(* ----------------------- communicator lifecycle ----------------------- *)
CommStmt(op, c) == [Stmt(op) EXCEPT !.ctx = c]
\* *comm_ptr = comm, or *comm_ptr = NULL
SetCommPtr(c, v) == [CommStmt("comm_ptr", c) EXCEPT !.args = v]

\* comm_clear(comm): buffer_deinit of the context, then free(comm); k names
\* the communicator, NULL for the local variable comm.
comm_clear(c, k) == [CommStmt("comm_clear", c) EXCEPT !.buf = k]

\* Fault: a comm_new that does not clear the communicator when the native
\* initialisation has failed.
comm_new_keep_ref(c, ndev, rank) ==
  << [CommStmt("comm_calloc", c) EXCEPT
        !.onfail = <<SetCommPtr(c, "NULL")>>, !.code = "GA_MEMORY_ERROR"],
     CommStmt("refcnt++", c),
     Enter(c),
     [CommStmt("ncclCommInitRank", c) EXCEPT
        !.args = [ndev |-> ndev, rank |-> rank], !.keep = TRUE],
     Exit(c),
     [CommStmt("iferr", c) EXCEPT
        !.onfail = <<SetCommPtr(c, "NULL"), SetCommError(c, "nccl_err")>>],
     SetCommPtr(c, "comm"),
     SetCommError(c, "nccl_success_error"),
     Return("GA_NO_ERROR") >>

comm_new(c, ndev, rank) ==
  << [CommStmt("comm_calloc", c) EXCEPT
        !.onfail = <<SetCommPtr(c, "NULL")>>, !.code = "GA_MEMORY_ERROR"],
     CommStmt("refcnt++", c),
     Enter(c),
     [CommStmt("ncclCommInitRank", c) EXCEPT
        !.args = [ndev |-> ndev, rank |-> rank], !.keep = TRUE],
     Exit(c),
     [CommStmt("iferr", c) EXCEPT
        !.onfail = <<SetCommPtr(c, "NULL"), comm_clear(c, NULL),
                     SetCommError(c, "nccl_err")>>],
     SetCommPtr(c, "comm"),
     SetCommError(c, "nccl_success_error"),
     Return("GA_NO_ERROR") >>

comm_free(cm) ==
  << Enter(cm.ctx),
     [CommStmt("ncclCommDestroy", cm.ctx) EXCEPT !.buf = cm.id],
     Exit(cm.ctx),
     comm_clear(cm.ctx, cm.id),
     Return("void") >>

(* ------------------------------ machine ------------------------------- *)
VARIABLES
  todo,      \* todo[t]: the statements thread t has still to execute
  ret,       \* ret[t]: what the last call of thread t returned
  loc,       \* loc[t]: the local variables of the running call
  log,       \* log[t]: what the running call has done so far
  ctxs,      \* the cuda_context structures
  handles,   \* the blas_handle structures
  comms,     \* the gpucomm structures
  dev,       \* the device: queued tasks and buffer events
  world      \* the participants of a communicator's world and their memories

vars == <<todo, ret, loc, log, ctxs, handles, comms, dev, world>>

\* The state as one record.
M ==
  [todo |-> todo, ret |-> ret, loc |-> loc, log |-> log, ctxs |-> ctxs,
   handles |-> handles, comms |-> comms, dev |-> dev]

Streams == {0} \cup Contexts
TaskIds == 1..MaxPending
Slots == {"Ta", "Aa", "xa", "ya"}

InitLoc ==
  [err |-> "none", pmode |-> "none", handle |-> NULL, comm |-> NULL,
   comm_ptr |-> "unset", scratch |-> [x \in Slots |-> "none"]]

InitLog(name, r) ==
  [name |-> name, r |-> r, enters |-> 0, exits |-> 0, waited |-> {},
   recorded |-> {}, issued |-> << >>, allocs |-> 0, writes |-> 0,
   trail |-> << >>, failed |-> "none", nwait |-> 0, nrec |-> 0]

FreeHandle == [st |-> "free", stream |-> 0, pmode |-> "none", kernels |-> {}]
FreeComm == [st |-> "free", ctx |-> 0, rank |-> 0, ndev |-> 0, pub |-> FALSE]

InitDev ==
  [q |-> << >>, rev |-> [b \in Buffers |-> NULL], wev |-> [b \in Buffers |-> NULL],
   fence |-> [x \in Streams |-> {}]]

\* One process alone: no world of participants is looked at.
NoWorld ==
  [W |-> 0, root |-> 0, op |-> "", val |-> << >>, plan |-> "none", mem |-> << >>,
   pos |-> << >>, gave_up |-> << >>, pend |-> << >>, done |-> 0, kept |-> << >>]

InitCtx == [depth |-> 0, owner |-> 0, blas_handle |-> NULL,
            comm_error |-> "none", refcnt |-> 1]

\* The smallest element of a nonempty set of numbers.
Least(S) == CHOOSE x \in S : \A y \in S : x <= y

Pop(m, t) == [m EXCEPT !.todo[t] = Tail(@)]

\* The error branch of statement s: its cleanup, then return code.
Fail(m, t, s, code) == [m EXCEPT !.todo[t] = s.onfail \o <<Return(code)>>]

\* The process dies.
Abort(m, t, sig) == [m EXCEPT !.todo[t] = << >>, !.ret[t] = sig]

CUBLAS_STATUS == {"CUBLAS_STATUS_SUCCESS", "CUBLAS_STATUS_EXECUTION_FAILED",
                  "CUBLAS_STATUS_ARCH_MISMATCH"}
GA_STATUS == {"GA_NO_ERROR", "GA_IMPL_ERROR"}
NCCL_STATUS == {"ncclSuccess", "ncclSystemError"}
Succeeded == {"none", "CUBLAS_STATUS_SUCCESS", "GA_NO_ERROR", "ncclSuccess", "ok"}

\* The status an entry point returns for a kept error.
CodeOf(e) ==
  IF e \in CUBLAS_STATUS THEN error_cublas(e)
  ELSE IF e \in NCCL_STATUS THEN "GA_COMM_ERROR"
  ELSE e

(* ------------------------------- device ------------------------------- *)
\* The device queue holds the tasks that have not completed, in the order
\* they were issued; a task is known by its place in the queue.
\* Thread t appends the work of a statement of kind op to stream x.
Enqueue(d, t, op, x, c, acc) ==
  [d EXCEPT !.q = Append(@, [by |-> t, kind |-> op, stream |-> x, ctx |-> c,
                             acc |-> acc, deps |-> d.fence[x], st |-> "queued"])]

\* An event is the last task of the stream it was recorded on, NULL once
\* everything before it has completed.
\* cuda_wait(b, mode): the context's stream waits for the event of the
\* buffer's last writer (READ), or of its last readers and writer (WRITE,
\* ALL).  An event of the stream itself adds no fence: the stream is
\* ordered.
WaitFence(d, c, b, mode) ==
  LET evs == (IF mode = CUDA_WAIT_READ THEN {d.wev[b]} ELSE {d.rev[b], d.wev[b]})
             \ {NULL}
  IN  [d EXCEPT !.fence[c] = @ \cup {e \in evs : d.q[e].stream # c}]

\* cuda_record(b, mode): the buffer's read and / or write event is
\* recorded on the context's stream.
RecordEvent(d, c, b, mode) ==
  LET on == {i \in DOMAIN d.q : d.q[i].stream = c}
      now == IF on = {} THEN NULL ELSE CHOOSE i \in on : \A j \in on : j <= i
  IN  [d EXCEPT !.rev[b] = IF "R" \in mode THEN now ELSE @,
                !.wev[b] = IF "W" \in mode THEN now ELSE @]

\* Task i of the queue may start: it is first in its stream and the
\* events its stream waited for have happened.
CanStart(d, i) ==
  /\ d.q[i].st = "queued"
  /\ \A j \in 1..(i - 1) : d.q[j].stream # d.q[i].stream
  /\ d.q[i].deps = {}

RemoveAt(q, i) == [j \in 1..(Len(q) - 1) |-> IF j < i THEN q[j] ELSE q[j + 1]]

\* What names task e once task i has left the queue.
Shift(e, i) == IF e = i THEN NULL ELSE IF e > i THEN e - 1 ELSE e

\* Task i completes and is forgotten.
Complete(d, i) ==
  LET rest == RemoveAt(d.q, i)
  IN  [q |-> [j \in DOMAIN rest |->
                [rest[j] EXCEPT !.deps = {Shift(e, i) : e \in @} \ {NULL}]],
       rev |-> [b \in Buffers |-> Shift(d.rev[b], i)],
       wev |-> [b \in Buffers |-> Shift(d.wev[b], i)],
       fence |-> [x \in Streams |-> {Shift(e, i) : e \in d.fence[x]} \ {NULL}]]

(* ----------------------- statement semantics --------------------------- *)
\* The blas_handle a statement works on.
HandleOf(m, t, s) ==
  IF s.slot = "handle" THEN m.loc[t].handle ELSE m.ctxs[s.ctx].blas_handle

\* The gpucomm a statement works on.
CommOf(m, t, s) == IF s.buf # NULL THEN s.buf ELSE m.loc[t].comm

\* What the environment can answer to statement s.
Outcomes(m, t, s) ==
  CASE s.op \in {"cuda_wait", "cuda_record", "gpudata_write", "kernel",
                 "GpuKernel_init"} -> GA_STATUS
    [] s.op \in {"cublas", "cublasGetPointerMode", "cublasSetPointerMode",
                 "cublasSetStream", "cublasCreate"} -> CUBLAS_STATUS
    [] s.op \in {"nccl", "ncclCommInitRank", "nccl_query"} -> NCCL_STATUS
    [] s.op = "alloc" -> {"ok", "GA_MEMORY_ERROR"}
    [] s.op = "calloc" ->
         IF \E h \in HandleIds : m.handles[h].st = "free"
         THEN {"ok", "NULL"} ELSE {"NULL"}
    [] s.op = "comm_calloc" ->
         IF \E k \in CommIds : m.comms[k].st = "free"
         THEN {"ok", "NULL"} ELSE {"NULL"}
    [] s.op = "assert" ->
         IF NULL \in s.args.deref \/ ~s.args.cond THEN {"continue", "abort"}
         ELSE {"continue"}
    [] OTHER -> {"ok"}

\* A statement that has to wait: cuda_enter while the context is entered,
\* a device call while the device queue is full.
Blocked(m, t, s) ==
  CASE s.op = "cuda_enter" -> m.ctxs[s.ctx].depth # 0
    [] s.op \in {"cublas", "kernel", "nccl"} -> Len(m.dev.q) >= MaxPending
    [] OTHER -> FALSE

\* The gate.
ExecGate(m, t, s) ==
  IF s.op = "cuda_enter"
  THEN [Pop(m, t) EXCEPT !.ctxs[s.ctx].depth = @ + 1, !.ctxs[s.ctx].owner = t,
                         !.log[t].enters = @ + 1]
  ELSE [Pop(m, t) EXCEPT !.ctxs[s.ctx].depth = @ - 1, !.ctxs[s.ctx].owner = 0,
                         !.log[t].exits = @ + 1]

\* The tracker.
ExecTrack(m, t, s, o) ==
  IF o # "GA_NO_ERROR" THEN Fail(m, t, s, o)
  ELSE IF s.op = "cuda_wait"
  THEN [Pop(m, t) EXCEPT !.log[t].waited = @ \cup {<<s.buf, s.mode>>},
                         !.log[t].nwait = @ + 1,
                         !.dev = WaitFence(@, s.ctx, s.buf, s.mode)]
  ELSE [Pop(m, t) EXCEPT !.log[t].recorded = @ \cup {<<s.buf, s.mode>>},
                         !.log[t].nrec = @ + 1,
                         !.dev = RecordEvent(@, s.ctx, s.buf, s.mode)]

\* The entry in the call's log of a device call.
Issue(m, t, s, o) ==
  [fn |-> s.fn, acc |-> s.acc, args |-> s.args, ok |-> o \in Succeeded,
   pmode |-> IF s.op = "cublas" THEN m.handles[HandleOf(m, t, s)].pmode ELSE "none"]

\* A cuBLAS call, a kernel launch or a collective: on success the work
\* is queued on the stream the call is bound to.
ExecDevice(m, t, s, o) ==
  LET x == IF s.op = "cublas" THEN m.handles[HandleOf(m, t, s)].stream ELSE s.ctx
      m1 == [m EXCEPT !.log[t].issued = Append(@, Issue(m, t, s, o)),
                      !.log[t].failed = IF s.op = "cublas" /\ o \notin Succeeded THEN o ELSE @,
                      !.loc[t].err = IF s.keep THEN o ELSE @]
      m2 == IF s.op = "nccl" /\ o \in Succeeded
            THEN [m1 EXCEPT !.ctxs[s.ctx].comm_error = "nccl_success_error"]
            ELSE m1
  IN  IF o \in Succeeded
      THEN [Pop(m2, t) EXCEPT !.dev = Enqueue(@, t, s.op, x, s.ctx, s.acc)]
      ELSE IF s.keep THEN Pop(m2, t)
      ELSE Fail(m2, t, s, CodeOf(o))

\* Scratch buffers.
ExecScratch(m, t, s, o) ==
  CASE s.op = "alloc" ->
         IF o = "ok"
         THEN [Pop(m, t) EXCEPT !.loc[t].scratch[s.slot] =
                                   IF @ = "none" THEN "live" ELSE "lost",
                                !.log[t].allocs = @ + 1]
         ELSE Fail(m, t, s, o)
    [] s.op = "gpudata_write" ->
         LET n == [m EXCEPT !.log[t].writes = @ + 1]
         IN  IF o = "GA_NO_ERROR" THEN Pop(n, t) ELSE Fail(n, t, s, o)
    [] OTHER ->
         [Pop(m, t) EXCEPT !.loc[t].scratch[s.slot] =
                              IF @ = "live" THEN "released" ELSE "bad"]

\* The cuBLAS calls on a handle that return a status.
CublasHandleOps ==
  {"cublasCreate", "cublasSetStream", "cublasGetPointerMode", "cublasSetPointerMode"}

\* Statements on a blas_handle.
ExecHandle(m, t, s, o) ==
  LET h == HandleOf(m, t, s)
      new == Least({x \in HandleIds : m.handles[x].st = "free"})
      \* what the statement met: the outcome of a call that can fail, else
      \* whether its object was there to destroy, clear or free
      met == CASE s.op \in {"calloc", "GpuKernel_init"} -> o \in {"ok", "GA_NO_ERROR"}
               [] s.op = "cublasDestroy" -> m.handles[h].st = "live"
               [] s.op = "GpuKernel_clear" -> s.fn \in m.handles[h].kernels
               [] s.op = "free" -> m.handles[h].st # "free"
               [] OTHER -> o = "CUBLAS_STATUS_SUCCESS"
      n == [m EXCEPT !.log[t].trail =
              IF s.op \in {"load_handle", "blas_handle"} THEN @
              ELSE Append(@, [op |-> s.op, fn |-> s.fn, ok |-> met]),
            !.log[t].failed =
              IF s.op \in CublasHandleOps /\ o # "CUBLAS_STATUS_SUCCESS" THEN o ELSE @]
  IN
  CASE s.op = "calloc" ->
         IF o = "ok"
         THEN [Pop(n, t) EXCEPT !.handles[new] = [FreeHandle EXCEPT !.st = "alloc"],
                                !.loc[t].handle = new]
         ELSE Fail(n, t, s, s.code)
    [] s.op = "free" -> [Pop(n, t) EXCEPT !.handles[h] = FreeHandle]
    [] s.op = "load_handle" -> [Pop(n, t) EXCEPT !.loc[t].handle = h]
    [] s.op = "blas_handle" ->
         [Pop(n, t) EXCEPT !.ctxs[s.ctx].blas_handle =
                              IF s.slot = "NULL" THEN NULL ELSE h]
    [] s.op = "cublasDestroy" -> [Pop(n, t) EXCEPT !.handles[h].st = "destroyed"]
    [] s.op = "GpuKernel_clear" ->
         [Pop(n, t) EXCEPT !.handles[h].kernels = @ \ {s.fn}]
    [] s.op = "GpuKernel_init" ->
         IF o = "GA_NO_ERROR"
         THEN [Pop(n, t) EXCEPT !.handles[h].kernels = @ \cup {s.fn}]
         ELSE Fail(n, t, s, o)
    [] o # "CUBLAS_STATUS_SUCCESS" -> Fail(n, t, s, error_cublas(o))
    [] s.op = "cublasCreate" ->
         [Pop(n, t) EXCEPT !.handles[h].st = "live", !.handles[h].stream = 0,
                           !.handles[h].pmode = "CUBLAS_POINTER_MODE_HOST"]
    [] s.op = "cublasSetStream" -> [Pop(n, t) EXCEPT !.handles[h].stream = s.ctx]
    [] s.op = "cublasGetPointerMode" ->
         [Pop(n, t) EXCEPT !.loc[t].pmode = m.handles[h].pmode]
    [] OTHER ->     \* cublasSetPointerMode
         [Pop(n, t) EXCEPT !.handles[h].pmode =
                              IF s.args = "pmode" THEN m.loc[t].pmode ELSE s.args]

\* Statements on a gpucomm.
ExecComm(m, t, s, o) ==
  LET k == CommOf(m, t, s)
      new == Least({x \in CommIds : m.comms[x].st = "free"})
  IN
  CASE s.op = "comm_calloc" ->
         IF o = "ok"
         THEN [Pop(m, t) EXCEPT !.comms[new] = [FreeComm EXCEPT !.st = "alloc",
                                                                !.ctx = s.ctx],
                                !.loc[t].comm = new]
         ELSE Fail(m, t, s, s.code)
    [] s.op = "refcnt++" -> [Pop(m, t) EXCEPT !.ctxs[s.ctx].refcnt = @ + 1]
    [] s.op = "ncclCommInitRank" ->
         IF o = "ncclSuccess"
         THEN [Pop(m, t) EXCEPT !.comms[k].st = "live", !.comms[k].ndev = s.args.ndev,
                                !.comms[k].rank = s.args.rank, !.loc[t].err = o]
         ELSE [Pop(m, t) EXCEPT !.loc[t].err = o]
    [] s.op = "ncclCommDestroy" -> [Pop(m, t) EXCEPT !.comms[k].st = "destroyed"]
    [] s.op = "comm_ptr" ->
         IF s.args = "NULL" THEN [Pop(m, t) EXCEPT !.loc[t].comm_ptr = "NULL"]
         ELSE [Pop(m, t) EXCEPT !.loc[t].comm_ptr = "comm", !.comms[k].pub = TRUE]
    [] s.op = "comm_clear" ->
         [Pop(m, t) EXCEPT !.ctxs[m.comms[k].ctx].refcnt = @ - 1,
                           !.comms[k] = FreeComm]
    [] s.op = "comm_error" -> [Pop(m, t) EXCEPT !.ctxs[s.ctx].comm_error = s.args]
    [] OTHER ->     \* nccl_query: the body of NCCL_CHKFAIL
         IF o = "ncclSuccess"
         THEN [Pop(m, t) EXCEPT !.ctxs[s.ctx].comm_error = "nccl_success_error"]
         ELSE [m EXCEPT !.ctxs[s.ctx].comm_error = "nccl_err",
                        !.todo[t] = <<Return("GA_COMM_ERROR")>>]

\* return, the test of a kept error, assert.
ExecControl(m, t, s, o) ==
  CASE s.op = "return" -> [m EXCEPT !.todo[t] = << >>, !.ret[t] = s.code]
    [] s.op = "iferr" ->
         IF m.loc[t].err \in Succeeded THEN Pop(m, t)
         ELSE Fail(m, t, s, CodeOf(m.loc[t].err))
    [] OTHER ->     \* assert
         IF o = "abort" THEN Abort(m, t, "SIGABRT") ELSE Pop(m, t)

GateOps == {"cuda_enter", "cuda_exit"}
TrackOps == {"cuda_wait", "cuda_record"}
DeviceOps == {"cublas", "kernel", "nccl"}
ScratchOps == {"alloc", "gpudata_write", "release"}
HandleOps ==
  {"calloc", "free", "load_handle", "blas_handle", "cublasCreate", "cublasDestroy",
   "cublasSetStream", "cublasGetPointerMode", "cublasSetPointerMode",
   "GpuKernel_init", "GpuKernel_clear"}
CommOps ==
  {"comm_calloc", "refcnt++", "ncclCommInitRank", "ncclCommDestroy", "comm_ptr",
   "comm_clear", "comm_error", "nccl_query"}
ControlOps == {"return", "iferr", "assert"}

\* Thread t executes the statement at the head of todo[t] with outcome o.
Exec(m, t, o) ==
  LET s == Head(m.todo[t])
  IN  CASE s.op \in GateOps -> ExecGate(m, t, s)
        [] s.op \in TrackOps -> ExecTrack(m, t, s, o)
        [] s.op \in DeviceOps -> ExecDevice(m, t, s, o)
        [] s.op \in ScratchOps -> ExecScratch(m, t, s, o)
        [] s.op \in HandleOps -> ExecHandle(m, t, s, o)
        [] s.op \in CommOps -> ExecComm(m, t, s, o)
        [] OTHER -> ExecControl(m, t, s, o)

(* ----------------------------- dispatch -------------------------------- *)
\* The optional cuBLAS entry points of the loaded library.
FullLib ==
  {"cublasSgemmEx", "cublasHgemmStridedBatched", "cublasSgemmStridedBatched",
   "cublasDgemmStridedBatched"}

CUDA_HAS_HALF == TRUE

BlasNames ==
  {"hgemm", "sgemm", "dgemm", "hgemm3D", "sgemm3D", "dgemm3D", "sgemmBatch",
   "dgemmBatch", "sdot", "ddot", "sgemv", "dgemv", "sgemvBatch", "dgemvBatch",
   "sger", "dger", "sgerBatch", "dgerBatch"}
CollNames == {"reduce", "all_reduce", "reduce_scatter", "broadcast", "all_gather"}

\* The table cublas_ops: setup, teardown and the entry points by name.
cublas_ops(name, r, blas_handle) ==
  CASE name = "setup" -> setup(r.c, blas_handle)
    [] name = "teardown" -> teardown(r.c, blas_handle)
    [] name = "hgemm" -> hgemm(r, r.lib)
    [] name = "sgemm" -> sgemm(r)
    [] name = "dgemm" -> dgemm(r)
    [] name = "hgemm3D" -> hgemm3D(r, r.lib)
    [] name = "sgemm3D" -> sgemm3D(r, r.lib)
    [] name = "dgemm3D" -> dgemm3D(r, r.lib)
    [] name = "sgemmBatch" -> sgemmBatch(r)
    [] name = "dgemmBatch" -> dgemmBatch(r)
    [] name = "sdot" -> sdot(r)
    [] name = "ddot" -> ddot(r)
    [] name = "sgemv" -> sgemv(r)
    [] name = "dgemv" -> dgemv(r)
    [] name = "sgemvBatch" -> sgemvBatch(r)
    [] name = "dgemvBatch" -> dgemvBatch(r)
    [] name = "sger" -> sger(r)
    [] name = "dger" -> dger(r)
    [] name = "sgerBatch" -> sgerBatch(r)
    [] OTHER -> dgerBatch(r)

\* The table nccl_ops.
nccl_ops(name, r, cm) ==
  CASE name = "comm_new" -> comm_new(r.c, r.ndev, r.rank)
    [] name = "comm_free" -> comm_free(cm)
    [] name = "reduce" -> reduce(r, cm, CUDA_HAS_HALF)
    [] name = "all_reduce" -> all_reduce(r, cm, CUDA_HAS_HALF)
    [] name = "reduce_scatter" -> reduce_scatter(r, cm, CUDA_HAS_HALF)
    [] name = "broadcast" -> broadcast(r, cm, CUDA_HAS_HALF)
    [] OTHER -> all_gather(r, cm, CUDA_HAS_HALF)

\* The context a linear-algebra entry point takes from its first operand.
BlasCtx(name, r) ==
  CASE name \in {"hgemm", "sgemm", "dgemm", "hgemm3D", "sgemm3D", "dgemm3D",
                 "sgemv", "dgemv"} -> gpudata[r.A].ctx
    [] name \in {"sgemmBatch", "dgemmBatch", "sgemvBatch", "dgemvBatch"} ->
         gpudata[r.A[1]].ctx
    [] name \in {"sdot", "ddot", "sger", "dger"} -> gpudata[r.X].ctx
    [] OTHER -> gpudata[r.x[1]].ctx

\* What a call may assume: a linear-algebra entry point that setup has
\* installed the handle, a collective and comm_free a communicator that
\* comm_new handed out.
Ready(m, name, r) ==
  CASE name \in BlasNames ->
         m.ctxs[BlasCtx(name, r)].blas_handle # NULL
    [] name \in CollNames \cup {"comm_free"} ->
         m.comms[r.comm].st = "live" /\ m.comms[r.comm].pub
    [] OTHER -> TRUE

Program(m, name, r) ==
  IF name \in BlasNames THEN cublas_ops(name, r, NULL)
  ELSE IF name \in {"setup", "teardown"}
    THEN cublas_ops(name, r, m.ctxs[r.c].blas_handle)
  ELSE IF name = "comm_new" THEN nccl_ops(name, r, FreeComm)
  ELSE nccl_ops(name, r, [id |-> r.comm, ctx |-> m.comms[r.comm].ctx,
                          rank |-> m.comms[r.comm].rank,
                          ndev |-> m.comms[r.comm].ndev])

(* ------------------------------ actions ------------------------------- *)
Aborted == \E t \in Threads : ret[t] = "SIGABRT"

Set(m) ==
  /\ todo' = m.todo
  /\ ret' = m.ret
  /\ loc' = m.loc
  /\ log' = m.log
  /\ ctxs' = m.ctxs
  /\ handles' = m.handles
  /\ comms' = m.comms
  /\ dev' = m.dev
  /\ world' = world

\* The device finishes what it was given before the host goes on.
Drained(m) == [m EXCEPT !.dev = InitDev]

\* Thread t starts the call of entry point name with request r.
Begin(m, t, name, r) ==
  [m EXCEPT !.todo[t] = Program(m, name, r), !.ret[t] = "none",
            !.loc[t] = InitLoc, !.log[t] = InitLog(name, r)]

\* Thread t is at a statement of ops that does not have to wait.
Runs(t, ops) ==
  /\ ~Aborted
  /\ todo[t] # << >>
  /\ Head(todo[t]).op \in ops
  /\ ~Blocked(M, t, Head(todo[t]))

\* Thread t executes its next statement; each action takes the kinds of
\* statement of one layer.
Gate(t) ==
  /\ Runs(t, GateOps)
  /\ \E o \in Outcomes(M, t, Head(todo[t])) : Set(Drained(Exec(M, t, o)))

Track(t) ==
  /\ Runs(t, TrackOps)
  /\ \E o \in Outcomes(M, t, Head(todo[t])) : Set(Drained(Exec(M, t, o)))

Device(t) ==
  /\ Runs(t, DeviceOps)
  /\ \E o \in Outcomes(M, t, Head(todo[t])) : Set(Drained(Exec(M, t, o)))

Scratch(t) ==
  /\ Runs(t, ScratchOps)
  /\ \E o \in Outcomes(M, t, Head(todo[t])) : Set(Drained(Exec(M, t, o)))

Handle(t) ==
  /\ Runs(t, HandleOps)
  /\ \E o \in Outcomes(M, t, Head(todo[t])) : Set(Drained(Exec(M, t, o)))

Comm(t) ==
  /\ Runs(t, CommOps)
  /\ \E o \in Outcomes(M, t, Head(todo[t])) : Set(Drained(Exec(M, t, o)))

Control(t) ==
  /\ Runs(t, ControlOps)
  /\ \E o \in Outcomes(M, t, Head(todo[t])) : Set(Drained(Exec(M, t, o)))

\* The caller of thread t has taken the result of the call.
Taken(t) == log[t].name = ""

\* The caller takes the result and forgets the call.
Resume(t) ==
  /\ ~Aborted
  /\ todo[t] = << >>
  /\ ~Taken(t)
  /\ Set([M EXCEPT !.ret[t] = "none", !.loc[t] = InitLoc,
                   !.log[t] = InitLog("", << >>)])

Init ==
  /\ todo = [t \in Threads |-> << >>]
  /\ ret = [t \in Threads |-> "none"]
  /\ loc = [t \in Threads |-> InitLoc]
  /\ log = [t \in Threads |-> InitLog("", << >>)]
  /\ ctxs = [c \in Contexts |-> InitCtx]
  /\ handles = [h \in HandleIds |-> FreeHandle]
  /\ comms = [k \in CommIds |-> FreeComm]
  /\ dev = InitDev
  /\ world = NoWorld

(* ------------------------------ requests ------------------------------ *)
Orders == {"cb_fortran", "cb_c"}

\* A constant array of n entries, and n offsets d apart.
Rep(n, b) == [i \in 1..n |-> b]
Offs(n, d) == [i \in 1..n |-> d * (i - 1)]

GemmReq(order, d) ==
  [order |-> order, transA |-> "cb_no_trans", transB |-> "cb_trans",
   M |-> d, N |-> d + 1, K |-> d + 2, alpha |-> 1,
   A |-> 1, offA |-> 0, lda |-> d, B |-> 2, offB |-> 4, ldb |-> d + 1,
   beta |-> 1, C |-> 3, offC |-> 0, ldc |-> d, lib |-> FullLib]

Gemm3DReq(order, d, n) ==
  [order |-> order, transA |-> "cb_no_trans", transB |-> "cb_trans",
   M |-> d, N |-> d + 1, K |-> d + 2, alpha |-> 1,
   A |-> 1, offA |-> 0, lda |-> d, strideA |-> 6,
   B |-> 2, offB |-> 4, ldb |-> d + 1, strideB |-> 7,
   beta |-> 1, C |-> 3, offC |-> 0, ldc |-> d, strideC |-> 8,
   batchCount |-> n, lib |-> FullLib]

GemmBatchReq(order, d, n) ==
  [order |-> order, transA |-> "cb_no_trans", transB |-> "cb_trans",
   M |-> d, N |-> d + 1, K |-> d + 2, alpha |-> 1,
   A |-> Rep(n, 1), offA |-> Offs(n, 4), lda |-> d,
   B |-> Rep(n, 2), offB |-> Offs(n, 2), ldb |-> d + 1,
   beta |-> 1, C |-> Rep(n, 3), offC |-> Offs(n, 8), ldc |-> d,
   batchCount |-> n, flags |-> 0]

DotReq(n, incX) ==
  [N |-> n, X |-> 1, offX |-> 0, incX |-> incX, Y |-> 2, offY |-> 0, incY |-> 1,
   Z |-> 3, offZ |-> 0]

GemvReq(order, d) ==
  [order |-> order, transA |-> "cb_no_trans", M |-> d, N |-> d + 1, alpha |-> 1,
   A |-> 1, offA |-> 0, lda |-> d, X |-> 2, offX |-> 0, incX |-> 1,
   beta |-> 1, Y |-> 3, offY |-> 4, incY |-> 2]

GemvBatchReq(order, d, n) ==
  [order |-> order, transA |-> "cb_no_trans", M |-> d, N |-> d + 1, alpha |-> 1,
   A |-> Rep(n, 1), offA |-> Offs(n, 4), lda |-> d,
   x |-> Rep(n, 2), offX |-> Offs(n, 2), incX |-> 1,
   beta |-> 1, y |-> Rep(n, 3), offY |-> Offs(n, 8), incY |-> 2,
   batchCount |-> n, flags |-> 0]

GerReq(order, d) ==
  [order |-> order, M |-> d, N |-> d + 1, alpha |-> 1,
   X |-> 1, offX |-> 0, incX |-> 1, Y |-> 2, offY |-> 4, incY |-> 2,
   A |-> 3, offA |-> 0, lda |-> d]

GerBatchReq(order, d, n) ==
  [order |-> order, M |-> d, N |-> d + 1, alpha |-> 1,
   x |-> Rep(n, 1), offX |-> Offs(n, 2), incX |-> 1,
   y |-> Rep(n, 2), offY |-> Offs(n, 4), incY |-> 2,
   A |-> Rep(n, 3), offA |-> Offs(n, 8), lda |-> d,
   batchCount |-> n, flags |-> 0]

CollReq(root, count) ==
  [src |-> 1, offsrc |-> 0, dest |-> 3, offdest |-> 0, array |-> 1, offset |-> 0,
   count |-> count, typecode |-> "GA_FLOAT", opcode |-> "GA_SUM", root |-> root,
   comm |-> 1]

\* The requests of an entry point with dimensions from D and batch counts
\* from B.
Requests(name, D, B) ==
  CASE name \in {"hgemm", "sgemm", "dgemm"} ->
         {GemmReq(o, d) : o \in Orders, d \in D}
    [] name \in {"hgemm3D", "sgemm3D", "dgemm3D"} ->
         {Gemm3DReq(o, d, n) : o \in Orders, d \in D, n \in B}
    [] name \in {"sgemmBatch", "dgemmBatch"} ->
         {GemmBatchReq(o, d, n) : o \in Orders, d \in D \cup {threshold + 1}, n \in B}
         \cup {[GemmBatchReq(o, threshold, n) EXCEPT !.N = threshold, !.K = k] :
                  o \in Orders, k \in {threshold, threshold + 1}, n \in B}
    [] name \in {"sdot", "ddot"} -> {DotReq(d, 1) : d \in D}
    [] name \in {"sgemv", "dgemv"} -> {GemvReq(o, d) : o \in Orders, d \in D}
    [] name \in {"sgemvBatch", "dgemvBatch"} ->
         {GemvBatchReq(o, d, n) : o \in Orders, d \in D, n \in B}
    [] name \in {"sger", "dger"} -> {GerReq(o, d) : o \in Orders, d \in D}
    [] name \in {"sgerBatch", "dgerBatch"} ->
         {GerBatchReq(o, d, n) : o \in Orders, d \in D, n \in B}
    [] name \in CollNames -> {CollReq(root, 2) : root \in {0, 1}}
    [] name \in {"setup", "teardown"} -> {[c |-> 1]}
    [] name = "comm_new" -> {[c |-> 1, ndev |-> 2, rank |-> 0]}
    [] OTHER -> {[comm |-> 1]}     \* comm_free

Names == BlasNames \cup CollNames \cup {"setup", "teardown", "comm_new", "comm_free"}

\* Thread t calls one of the entry points names.
Call(t, names, D, B) ==
  /\ ~Aborted
  /\ todo[t] = << >>
  /\ Taken(t)
  /\ \E name \in names : \E r \in Requests(name, D, B) :
       /\ Ready(M, name, r)
       /\ Set(Begin(M, t, name, r))

(* --------------------------- specifications --------------------------- *)
Next ==
  \/ Call(1, Names, {2}, {MaxBatch})
  \/ Gate(1)
  \/ Track(1)
  \/ Device(1)
  \/ Scratch(1)
  \/ Handle(1)
  \/ Comm(1)
  \/ Control(1)
  \/ Resume(1)

Spec == Init /\ [][Next]_vars

(* ------------------------- the device at work ------------------------- *)
\* Every state in which the call thread t is running can end, the
\* environment answering each statement in every way it can.  A call that
\* has to wait for the gate or for room in the device queue does not end.
RECURSIVE Run(_, _)
Run(m, t) ==
  IF m.todo[t] = << >> THEN {m}
  ELSE IF Blocked(m, t, Head(m.todo[t])) THEN {}
  ELSE UNION {Run(Exec(m, t, o), t) : o \in Outcomes(m, t, Head(m.todo[t]))}

\* The state after the caller has taken the result.
Forget(m, t) ==
  IF m.ret[t] = "SIGABRT" THEN m
  ELSE [m EXCEPT !.ret[t] = "none", !.loc[t] = InitLoc,
                 !.log[t] = InitLog("", << >>)]

\* The state Init, as a record.
M0 ==
  [todo |-> [t \in Threads |-> << >>], ret |-> [t \in Threads |-> "none"],
   loc |-> [t \in Threads |-> InitLoc],
   log |-> [t \in Threads |-> InitLog("", << >>)],
   ctxs |-> [c \in Contexts |-> InitCtx],
   handles |-> [h \in HandleIds |-> FreeHandle],
   comms |-> [k \in CommIds |-> FreeComm], dev |-> InitDev]

\* The state after a successful call from state m.
After(m, name, r) ==
  Forget(CHOOSE x \in Run(Begin(m, 1, name, r), 1) : x.ret[1] = "GA_NO_ERROR", 1)

\* A context with its handle set up and a communicator of rank 0 of 2.
Ready1 ==
  After(After(M0, "setup", [c |-> 1]), "comm_new", [c |-> 1, ndev |-> 2, rank |-> 0])

InitReady ==
  /\ todo = Ready1.todo
  /\ ret = Ready1.ret
  /\ loc = Ready1.loc
  /\ log = Ready1.log
  /\ ctxs = Ready1.ctxs
  /\ handles = Ready1.handles
  /\ comms = Ready1.comms
  /\ dev = Ready1.dev
  /\ world = NoWorld

\* Thread t makes a whole call while the device works on.
CallDev(t, names, D, B) ==
  /\ ~Aborted
  /\ \E name \in names : \E r \in Requests(name, D, B) :
       /\ Ready(M, name, r)
       /\ \E m \in Run(Begin(M, t, name, r), t) : Set(Forget(m, t))

\* The device starts the i-th task of its queue.
DevBegin(i) ==
  /\ i \in DOMAIN dev.q
  /\ CanStart(dev, i)
  /\ dev' = [dev EXCEPT !.q[i].st = "running"]
  /\ UNCHANGED <<todo, ret, loc, log, ctxs, handles, comms, world>>

\* The device completes the i-th task of its queue.
DevEnd(i) ==
  /\ i \in DOMAIN dev.q
  /\ dev.q[i].st = "running"
  /\ dev' = Complete(dev, i)
  /\ UNCHANGED <<todo, ret, loc, log, ctxs, handles, comms, world>>

NextDev ==
  \/ \E t \in Threads : CallDev(t, {"sgemm", "sgemvBatch", "all_reduce"}, {2}, {1})
  \/ \E i \in TaskIds : DevBegin(i)
  \/ \E i \in TaskIds : DevEnd(i)

SpecDev == InitReady /\ [][NextDev]_vars

(* --------------------------- two host threads -------------------------- *)
\* Two threads call on a context that is set up; each statement is a step.
NextConc ==
  \/ \E t \in Threads : Call(t, {"sdot", "reduce"}, {2}, {MaxBatch})
  \/ \E t \in Threads : Gate(t)
  \/ \E t \in Threads : Track(t)
  \/ \E t \in Threads : Device(t)
  \/ \E t \in Threads : Handle(t)
  \/ \E t \in Threads : Comm(t)
  \/ \E t \in Threads : Control(t)
  \/ \E t \in Threads : Resume(t)

SpecConc == InitReady /\ [][NextConc]_vars

(* ------------------------ two threads set up --------------------------- *)
\* Two threads call setup on contexts that start without a handle; each
\* statement is a step.
NextSetup ==
  \/ \E t \in Threads : Call(t, {"setup"}, {2}, {MaxBatch})
  \/ \E t \in Threads : Gate(t)
  \/ \E t \in Threads : Handle(t)
  \/ \E t \in Threads : Control(t)
  \/ \E t \in Threads : Resume(t)

SpecSetup == Init /\ [][NextSetup]_vars

(* --------------------------- wide requests ---------------------------- *)
\* Dimensions: small, large as a product of two, large alone.
Dims == {2, 46341, INT_MAX}
Lds == {2, INT_MAX}
Incs == {1, INT_MAX}

\* The requests that differ from the request base in fields drawn from
\* the sets above, the dimensions together and the rest one at a time.
WideGemm(base) ==
  {[base EXCEPT !.M = m, !.N = n, !.K = k] : m \in Dims, n \in Dims, k \in Dims}
  \cup {[base EXCEPT !.lda = l] : l \in Lds}
  \cup {[base EXCEPT !.ldb = l] : l \in Lds}
  \cup {[base EXCEPT !.ldc = l] : l \in Lds}
  \cup {[base EXCEPT !.order = o] : o \in Orders}

WideVec(base) ==
  {[base EXCEPT !.M = m, !.N = n] : m \in Dims, n \in Dims}
  \cup {[base EXCEPT !.lda = l] : l \in Lds}
  \cup {[base EXCEPT !.incX = i] : i \in Incs}
  \cup {[base EXCEPT !.incY = i] : i \in Incs}
  \cup {[base EXCEPT !.order = o] : o \in Orders}

WideBatch(base) ==
  {[base EXCEPT !.M = m, !.N = n] :
     m \in Dims \cup {40, 600, 512 * 65535, 512 * 65535 + 1}, n \in Dims \cup {40}}
  \cup {[base EXCEPT !.lda = l] : l \in Lds}
  \cup {[base EXCEPT !.incX = i] : i \in Incs}
  \cup {[base EXCEPT !.incY = i] : i \in Incs}
  \cup {[base EXCEPT !.alpha = a] : a \in {1, 2}}
  \cup {[base EXCEPT !.flags = f] : f \in {0, 1}}
  \cup {[base EXCEPT !.order = o] : o \in Orders}

WideColl(base) ==
  {[base EXCEPT !.src = b, !.array = b, !.offsrc = o, !.offset = o, !.count = n] :
     b \in {1, 2, 4}, o \in {0, 12, 20}, n \in {1, 2, 3}}
  \cup {[base EXCEPT !.dest = b, !.offdest = o, !.count = n] :
          b \in {3, 2, 4}, o \in {0, 12, 20}, n \in {1, 2, 3}}
  \cup {[base EXCEPT !.typecode = c, !.opcode = p, !.root = q] :
          c \in {"GA_FLOAT", "GA_BYTE", "GA_UINT"}, p \in {"GA_SUM", "GA_NOP"},
          q \in {0, 1}}

\* The requests that differ from the request base in the transpose flag
\* and the order.
Transposes == {"cb_no_trans", "cb_trans", "cb_conj_trans"}
WideTrans(base) ==
  {[base EXCEPT !.transA = tr, !.order = o] : tr \in Transposes, o \in Orders}

\* The loaded libraries: all optional entry points, all but one, none.
Libs == {FullLib} \cup {FullLib \ {f} : f \in FullLib} \cup {{}}

\* The requests that differ from the request base in the loaded library,
\* with a dimension that passes the overflow test and one that does not.
WideLib(base) ==
  {[base EXCEPT !.lib = l, !.M = m] : l \in Libs, m \in {2, INT_MAX}}

WideRequests(name) ==
  CASE name \in {"sgemm", "dgemm"} -> WideGemm(GemmReq("cb_fortran", 2))
    [] name = "hgemm" ->
         WideGemm(GemmReq("cb_fortran", 2)) \cup WideLib(GemmReq("cb_fortran", 2))
    [] name \in {"hgemm3D", "sgemm3D", "dgemm3D"} ->
         WideGemm(Gemm3DReq("cb_fortran", 2, 1))
         \cup WideLib(Gemm3DReq("cb_fortran", 2, MaxBatch))
         \cup WideLib(Gemm3DReq("cb_c", 2, MaxBatch))
    [] name \in {"sgemmBatch", "dgemmBatch"} ->
         WideGemm(GemmBatchReq("cb_fortran", 2, 1))
    [] name \in {"sdot", "ddot"} ->
         {[DotReq(n, i) EXCEPT !.incY = j] : n \in Dims, i \in Incs, j \in Incs}
    [] name \in {"sgemv", "dgemv"} ->
         WideVec(GemvReq("cb_fortran", 2)) \cup WideTrans(GemvReq("cb_fortran", 2))
    [] name \in {"sger", "dger"} -> WideVec(GerReq("cb_fortran", 2))
    [] name \in {"sgemvBatch", "dgemvBatch"} ->
         WideBatch(GemvBatchReq("cb_fortran", 2, 1))
         \cup {[GemvBatchReq("cb_fortran", 2, 1) EXCEPT !.beta = 2]}
         \cup WideTrans(GemvBatchReq("cb_fortran", 2, 1))
    [] name \in {"sgerBatch", "dgerBatch"} ->
         WideBatch(GerBatchReq("cb_fortran", 2, 1))
    [] name = "reduce" ->
         \* with a NULL destination on a rank that is not the root
         WideColl(CollReq(0, 2))
         \cup {[CollReq(1, n) EXCEPT !.dest = NULL] : n \in {1, 2}}
    [] OTHER -> WideColl(CollReq(0, 2))

\* Thread t makes a whole call with a wide request.
CallWide(t) ==
  /\ ~Aborted
  /\ Taken(t)
  /\ \E name \in BlasNames \cup CollNames : \E r \in WideRequests(name) :
       /\ Ready(M, name, r)
       /\ \E m \in Run(Begin(M, t, name, r), t) : Set(Drained(m))

\* The world sizes a communicator is made with.
Worlds == {2, 3}

\* The caller of thread t frees its communicator and joins a world of
\* another size: comm_free, then comm_new, both succeeding.
Regroup(t) ==
  /\ ~Aborted
  /\ Taken(t)
  /\ Ready(M, "comm_free", [comm |-> 1])
  /\ \E n \in Worlds \ {comms[1].ndev} :
     \E m1 \in Run(Begin(M, t, "comm_free", [comm |-> 1]), t) :
     \E m2 \in Run(Begin(Forget(m1, t), t, "comm_new",
                         [c |-> 1, ndev |-> n, rank |-> 0]), t) :
       /\ m2.ret[t] = "GA_NO_ERROR"
       /\ Set(Forget(m2, t))

NextWide ==
  \/ CallWide(1)
  \/ Resume(1)
  \/ Regroup(1)

SpecWide == InitReady /\ [][NextWide]_vars

(* ------------------------- a world of participants -------------------- *)
\* The participants of a world of W devices are the ranks 0 .. W - 1, one
\* process each, with a context that is set up and a communicator of that
\* rank.
Ranks(W) == 0..(W - 1)

\* The machine of the participant of rank i in a world of W.
Member ==
  [W \in Worlds |->
     [i \in Ranks(W) |->
        After(After(M0, "setup", [c |-> 1]), "comm_new",
              [c |-> 1, ndev |-> W, rank |-> i])]]

\* The collectives of the two plans: all_reduce from the source into the
\* destination, and reduce to the root followed by a broadcast of the
\* destination from the root.
WorldReq(root, opcode) ==
  [CollReq(root, 2) EXCEPT !.opcode = opcode, !.offdest = 8, !.array = 3, !.offset = 8]

Plan(w) ==
  CASE w.plan = "all_reduce" -> <<"all_reduce">>
    [] w.plan = "reduce_broadcast" -> <<"reduce", "broadcast">>
    [] OTHER -> << >>

\* The memory of a participant: the elements of its buffers, the source
\* constant v, every other buffer 9.
Floats(b) == gpudata[b].sz \div gpuarray_get_elsize("GA_FLOAT")

StartMem(v) ==
  [b \in Buffers |-> [k \in 1..Floats(b) |-> IF b = 1 THEN v ELSE 9]]

\* A world at the start, of a size, a root, a reduce operation and the
\* value each rank contributes.
StartWorld(W, root, op, val) ==
  [W |-> W, root |-> root, op |-> op, val |-> val, plan |-> "all_reduce",
    mem |-> [i \in Ranks(W) |-> StartMem(val[i])],
    pos |-> [i \in Ranks(W) |-> 0],
    gave_up |-> [i \in Ranks(W) |-> FALSE],
    pend |-> [i \in Ranks(W) |-> << >>],
    done |-> 0,
    kept |-> [i \in Ranks(W) |-> << >>]]

StartWorlds ==
  UNION {{StartWorld(W, root, op, val) :
            root \in Ranks(W), op \in {"GA_SUM", "GA_PROD", "GA_MAX", "GA_MIN"},
            val \in [Ranks(W) -> {1, 2, 3}]} : W \in Worlds}

\* The native calls a finished call of thread 1 has queued.
Queued(m) ==
  LET q == SelectSeq(m.log[1].issued, LAMBDA e : e.ok)
  IN  [k \in DOMAIN q |-> [fn |-> q[k].fn, args |-> q[k].args]]

\* Participant i makes the next call of the plan, as a whole; one whose
\* call has returned an error makes no further call.
Join(i) ==
  /\ i \in DOMAIN world.pos
  /\ ~world.gave_up[i]
  /\ world.pos[i] < Len(Plan(world))
  /\ \E m \in Run(Begin(Member[world.W][i], 1, Plan(world)[world.pos[i] + 1],
                        WorldReq(world.root, world.op)), 1) :
       world' = [world EXCEPT !.pos[i] = @ + 1,
                              !.gave_up[i] = m.ret[1] # "GA_NO_ERROR",
                              !.pend[i] = @ \o Queued(m)]
  /\ UNCHANGED <<todo, ret, loc, log, ctxs, handles, comms, dev>>

\* The byte width of an element of a native type.
NcclWidth(datatype) ==
  CASE datatype = "ncclChar" -> 1
    [] datatype = "ncclHalf" -> 2
    [] datatype \in {"ncclInt", "ncclFloat"} -> 4
    [] OTHER -> 8

\* The reduction of two elements.
Combine(op, a, b) ==
  CASE op = "ncclSum" -> a + b
    [] op = "ncclProd" -> a * b
    [] op = "ncclMax" -> IF a > b THEN a ELSE b
    [] OTHER -> IF a < b THEN a ELSE b

\* The reduction of f[0] .. f[n].
RECURSIVE FoldRanks(_, _, _)
FoldRanks(op, f, n) ==
  IF n = 0 THEN f[0] ELSE Combine(op, FoldRanks(op, f, n - 1), f[n])

\* The n elements at pointer p = <<buffer, byte offset>> of memory mm, and
\* mm with them replaced by vals.
Load(mm, p, w, n) == [k \in 1..n |-> mm[p[1]][p[2] \div w + k]]
Store(mm, p, w, vals) ==
  [mm EXCEPT ![p[1]] =
     [j \in DOMAIN @ |->
        IF j - p[2] \div w \in DOMAIN vals THEN vals[j - p[2] \div w] ELSE @[j]]]

\* The native calls at the head of every participant's queue are the same
\* collective.
Matching(w) ==
  /\ \A i \in DOMAIN w.pend : w.pend[i] # << >>
  /\ \A i \in DOMAIN w.pend :
       LET h == Head(w.pend[i])
           g == Head(w.pend[0])
       IN  /\ h.fn = g.fn
           /\ h.args.count = g.args.count
           /\ h.args.datatype = g.args.datatype
           /\ h.fn \in {"ncclReduce", "ncclAllReduce"} => h.args.op = g.args.op
           /\ h.fn \in {"ncclReduce", "ncclBcast"} => h.args.root = g.args.root

\* The memories after the collective at the heads of the queues.
Collective(w) ==
  LET g == Head(w.pend[0]).args
      fn == Head(w.pend[0]).fn
      wd == NcclWidth(g.datatype)
      sent(i) == Load(w.mem[i], Head(w.pend[i]).args.src, wd, g.count)
      reduced == [k \in 1..g.count |->
                    FoldRanks(g.op, [i \in DOMAIN w.pend |-> sent(i)[k]], w.W - 1)]
  IN  [i \in DOMAIN w.mem |->
         LET a == Head(w.pend[i]).args
         IN  CASE fn = "ncclReduce" ->
                    IF i = g.root /\ a.dest[1] # NULL
                    THEN Store(w.mem[i], a.dest, wd, reduced) ELSE w.mem[i]
               [] fn = "ncclAllReduce" -> Store(w.mem[i], a.dest, wd, reduced)
               [] fn = "ncclBcast" ->
                    Store(w.mem[i], a.buff, wd,
                          Load(w.mem[g.root], Head(w.pend[g.root]).args.buff, wd, g.count))
               [] OTHER -> w.mem[i]]

\* The collective that every participant has queued takes place.
Meet ==
  /\ world.W > 0
  /\ Matching(world)
  /\ world' = [world EXCEPT !.mem = Collective(world),
                            !.pend = [i \in DOMAIN @ |-> Tail(@[i])],
                            !.done = @ + 1]
  /\ UNCHANGED <<todo, ret, loc, log, ctxs, handles, comms, dev>>

\* The world after its all_reduce starts again from the same memories with
\* the plan of reduce and broadcast; the destinations are kept.
Replay ==
  /\ world.plan = "all_reduce"
  /\ world.done = 1
  /\ world' = [world EXCEPT !.plan = "reduce_broadcast",
                            !.kept = [i \in DOMAIN @ |-> world.mem[i][3]],
                            !.mem = [i \in DOMAIN @ |-> StartMem(world.val[i])],
                            !.pos = [i \in DOMAIN @ |-> 0],
                            !.gave_up = [i \in DOMAIN @ |-> FALSE],
                            !.pend = [i \in DOMAIN @ |-> << >>],
                            !.done = 0]
  /\ UNCHANGED <<todo, ret, loc, log, ctxs, handles, comms, dev>>

InitWorld ==
  /\ todo = M0.todo
  /\ ret = M0.ret
  /\ loc = M0.loc
  /\ log = M0.log
  /\ ctxs = M0.ctxs
  /\ handles = M0.handles
  /\ comms = M0.comms
  /\ dev = M0.dev
  /\ world \in StartWorlds

NextWorld ==
  \/ \E i \in Ranks(3) : Join(i)
  \/ Meet
  \/ Replay

SpecWorld == InitWorld /\ [][NextWorld]_vars

(* ------------------------------- claims ------------------------------- *)
\* The call of thread t is over: it returned or the process was aborted.
Ended(t) == todo[t] = << >> /\ ~Taken(t)

\* The call of thread t returned to its caller.
Returned(t) == Ended(t) /\ ret[t] # "SIGABRT"

\* The call of thread t returned success.
Ok(t) == Returned(t) /\ ret[t] = "GA_NO_ERROR"

\* Two device tasks touch a common buffer and one of them writes it.
Conflict(a, b) ==
  \E x \in a.acc : \E y \in b.acc : x[1] = y[1] /\ "w" \in {x[2], y[2]}

\* C1: device operations on the same context that conflict on a buffer
\* execute in the order they were issued, whichever threads issued them:
\* while the earlier one has not completed the later one has not started.
C1_IssueOrder ==
  \A i \in DOMAIN dev.q : \A j \in DOMAIN dev.q :
    (i < j /\ dev.q[i].ctx = dev.q[j].ctx /\ Conflict(dev.q[i], dev.q[j]))
      => dev.q[j].st = "queued"

\* A cuBLAS call of one thread is running while a conflicting collective
\* of the other thread waits behind it.
C1_Witness ==
  \E i \in DOMAIN dev.q : \E j \in DOMAIN dev.q :
    /\ i < j
    /\ dev.q[i].ctx = dev.q[j].ctx
    /\ Conflict(dev.q[i], dev.q[j])
    /\ dev.q[i].by # dev.q[j].by
    /\ dev.q[i].kind = "cublas" /\ dev.q[i].st = "running"
    /\ dev.q[j].kind = "nccl" /\ dev.q[j].st = "queued"

\* C2: every entry point that enters the gate leaves it exactly once on
\* every return path.
C2_ExitOncePerEnter ==
  \A t \in Threads : Returned(t) => log[t].enters = log[t].exits

\* Thread t is inside a sequence on context c: it has waited or issued and
\* still has tracker or device statements of c ahead.
Within(t, c) ==
  /\ log[t].waited # {} \/ log[t].issued # << >>
  /\ \E i \in DOMAIN todo[t] :
       todo[t][i].op \in TrackOps \cup DeviceOps /\ todo[t][i].ctx = c

\* The next statement of thread t is a tracker or device statement of c.
About(t, c) ==
  /\ todo[t] # << >>
  /\ Head(todo[t]).op \in TrackOps \cup DeviceOps
  /\ Head(todo[t]).ctx = c

\* C3: the bracketed sequences of two threads on one context do not
\* interleave: while a thread is between its first wait and its last
\* record, no other thread is at a wait, device call or record of that
\* context.
C3_NoInterleaving ==
  \A t \in Threads : \A u \in Threads \ {t} : \A c \in Contexts :
    ~(Within(t, c) /\ About(u, c))

\* Thread 1 is inside its sequence and thread 2 stands at the gate.
C3_Witness ==
  /\ Within(1, 1)
  /\ log[1].issued # << >>
  /\ todo[2] # << >>
  /\ Head(todo[2]).op = "cuda_enter"
  /\ Head(todo[2]).ctx = 1
  /\ ctxs[1].depth = 1

\* The buffers named by a set of <<buffer, mode>> or <<buffer, access>> pairs.
BufsOf(S) == {x[1] : x \in S}

\* The buffers the device calls of thread t's call access.
IssuedBufs(t) ==
  UNION {BufsOf(log[t].issued[i].acc) : i \in DOMAIN log[t].issued}

\* C4: inside the bracket, every buffer operand is waited on before the
\* device call that accesses it and recorded after it: waits, device calls
\* and records happen only between enter and exit, a device call accesses
\* only buffers already waited on, a record follows a device call on that
\* buffer, and on success every accessed buffer has been recorded.
C4_WaitCallRecord ==
  \A t \in Threads :
    /\ (todo[t] # << >> /\ Head(todo[t]).op \in TrackOps \cup DeviceOps)
         => log[t].enters = log[t].exits + 1
    /\ IssuedBufs(t) \subseteq BufsOf(log[t].waited)
    /\ BufsOf(log[t].recorded) \subseteq IssuedBufs(t)
    /\ Ok(t) => IssuedBufs(t) \subseteq BufsOf(log[t].recorded)

\* An sgemv has made its cuBLAS call and has not recorded yet.
C4_Witness ==
  /\ log[1].name = "sgemv"
  /\ IssuedBufs(1) = {1, 2, 3}
  /\ BufsOf(log[1].waited) = {1, 2, 3}
  /\ log[1].recorded = {}
  /\ todo[1] # << >>
  /\ Head(todo[1]).op = "cuda_record"

\* The error codes of the validation that precedes the bracket.
Rejections ==
  {"GA_XLARGE_ERROR", "GA_VALUE_ERROR", "GA_UNSUPPORTED_ERROR", "GA_INVALID_ERROR"}

\* C5: a call rejected by validation (overflow, out of bounds, context
\* mismatch, unrecognized code, unsupported parameters) returns before
\* entering the gate and with no wait and no record.
C5_RejectBeforeEnter ==
  \A t \in Threads :
    (Returned(t) /\ log[t].name \in BlasNames \cup CollNames /\ ret[t] \in Rejections)
      => /\ log[t].enters = 0
         /\ log[t].waited = {}
         /\ log[t].recorded = {}
         /\ log[t].issued = << >>

\* A reduce_scatter whose destination is in another context was rejected.
C5_Witness ==
  /\ Returned(1)
  /\ log[1].name = "reduce_scatter"
  /\ gpudata[log[1].r.dest].ctx # comms[log[1].r.comm].ctx
  /\ ret[1] = "GA_VALUE_ERROR"
  /\ log[1].enters = 0

Single == {"hgemm", "sgemm", "dgemm", "hgemm3D", "sgemm3D", "dgemm3D",
           "sgemv", "dgemv", "sger", "dger"}

\* The <<buffer, mode>> pairs the caller's operands call for: sources for
\* reading, the output for reading and writing.
Expected(name, r) ==
  CASE name \in {"sgemv", "dgemv"} ->
         {<<r.A, CUDA_WAIT_READ>>, <<r.X, CUDA_WAIT_READ>>, <<r.Y, CUDA_WAIT_ALL>>}
    [] name \in {"sger", "dger"} ->
         {<<r.X, CUDA_WAIT_READ>>, <<r.Y, CUDA_WAIT_READ>>, <<r.A, CUDA_WAIT_ALL>>}
    [] OTHER ->
         {<<r.A, CUDA_WAIT_READ>>, <<r.B, CUDA_WAIT_READ>>, <<r.C, CUDA_WAIT_ALL>>}

\* C6: single and strided-batched gemm, gemv and ger wait on their sources
\* for reading and on their output for reading and writing, record each
\* buffer with the mode it was waited on with, and the row-major exchange
\* of operands keeps these modes on the caller's buffers.
C6_Modes ==
  \A t \in Threads :
    log[t].name \in Single
      => /\ log[t].waited \subseteq Expected(log[t].name, log[t].r)
         /\ log[t].recorded \subseteq log[t].waited
         /\ log[t].issued # << >> => log[t].waited = Expected(log[t].name, log[t].r)
         /\ Ok(t) => log[t].recorded = Expected(log[t].name, log[t].r)

\* A row-major sger has returned success.
C6_Witness ==
  /\ Ok(1)
  /\ log[1].name = "sger"
  /\ log[1].r.order = "cb_c"
  /\ log[1].recorded = {<<1, CUDA_WAIT_READ>>, <<2, CUDA_WAIT_READ>>, <<3, CUDA_WAIT_ALL>>}

Batched == {"sgemmBatch", "dgemmBatch", "sgemvBatch", "dgemvBatch",
            "sgerBatch", "dgerBatch"}

\* The destination and the source buffers of a batched request.
Dests(name, r) ==
  CASE name \in {"sgemmBatch", "dgemmBatch"} -> SetOf(r.C)
    [] name \in {"sgemvBatch", "dgemvBatch"} -> SetOf(r.y)
    [] OTHER -> SetOf(r.A)

Sources(name, r) ==
  CASE name \in {"sgemmBatch", "dgemmBatch"} -> SetOf(r.A) \cup SetOf(r.B)
    [] name \in {"sgemvBatch", "dgemvBatch"} -> SetOf(r.A) \cup SetOf(r.x)
    [] OTHER -> SetOf(r.x) \cup SetOf(r.y)

\* C7: after a successful batched gemm, gemv or ger every destination
\* buffer has been recorded with a mode that includes write, every source
\* buffer with READ, and each buffer with the mode it was waited on with.
C7_BatchRecords ==
  \A t \in Threads :
    (Ok(t) /\ log[t].name \in Batched)
      => /\ \A b \in Dests(log[t].name, log[t].r) :
              \E p \in log[t].recorded : p[1] = b /\ "W" \in p[2]
         /\ \A b \in Sources(log[t].name, log[t].r) :
              <<b, CUDA_WAIT_READ>> \in log[t].recorded
         /\ log[t].recorded = log[t].waited

\* C8: every scratch buffer a call allocated is released exactly once on
\* every path, success or error: none is released twice or overwritten
\* while live, and none is live when the call returns.
C8_ScratchReleased ==
  \A t \in Threads : \A x \in Slots :
    /\ loc[t].scratch[x] \notin {"bad", "lost"}
    /\ Returned(t) => loc[t].scratch[x] \in {"none", "released"}

\* An sgemvBatch whose third allocation failed has returned with the
\* first two released.
C8_Witness ==
  /\ Returned(1)
  /\ log[1].name = "sgemvBatch"
  /\ ret[1] = "GA_MEMORY_ERROR"
  /\ log[1].allocs = 2
  /\ loc[1].scratch["Aa"] = "released"
  /\ loc[1].scratch["xa"] = "released"

\* a * b >= INT_MAX for positive a and b, without computing the product.
ProductLarge(a, b) == a > 0 /\ b > 0 /\ a > (INT_MAX - 1) \div b

\* A dimension, leading dimension, increment or pairwise product of
\* dimensions of the request is INT_MAX or more.
AnyLarge(name, r) ==
  CASE name \in {"sdot", "ddot"} ->
         r.N >= INT_MAX \/ r.incX >= INT_MAX \/ r.incY >= INT_MAX
    [] name \in {"sgemv", "dgemv", "sger", "dger", "sgemvBatch", "dgemvBatch",
                 "sgerBatch", "dgerBatch"} ->
         \/ r.M >= INT_MAX \/ r.N >= INT_MAX \/ r.lda >= INT_MAX
         \/ r.incX >= INT_MAX \/ r.incY >= INT_MAX
         \/ ProductLarge(r.M, r.N)
    [] OTHER ->
         \/ r.M >= INT_MAX \/ r.N >= INT_MAX \/ r.K >= INT_MAX
         \/ r.lda >= INT_MAX \/ r.ldb >= INT_MAX \/ r.ldc >= INT_MAX
         \/ ProductLarge(r.M, r.N) \/ ProductLarge(r.M, r.K)
         \/ ProductLarge(r.K, r.N)

\* C9: a BLAS call with a dimension, leading dimension, increment or
\* pairwise product of dimensions of INT_MAX or more returns the overflow
\* error, and no vendor call or kernel launch is made.
C9_Overflow ==
  \A t \in Threads :
    (Ended(t) /\ log[t].name \in BlasNames /\ AnyLarge(log[t].name, log[t].r))
      => /\ ret[t] = "GA_XLARGE_ERROR"
         /\ log[t].issued = << >>

\* The bytes a collective moves per rank, and whether they exceed what a
\* buffer of size sz holds after offset off.
Exceeds(r, sz, off) == r.count * gpuarray_get_elsize(r.typecode) > sz - off

\* C10: a collective whose count times element size exceeds size minus
\* offset of its source, or of its destination when it needs one, returns
\* the value error before the gate is entered, with no native collective
\* and no wait or record.
C10_OutOfBounds ==
  \A t \in Threads :
    LET r == log[t].r
        name == log[t].name
        src == IF name = "broadcast" THEN r.array ELSE r.src
        off == IF name = "broadcast" THEN r.offset ELSE r.offsrc
        needsDest ==
          \/ name \in {"all_reduce", "reduce_scatter", "all_gather"}
          \/ name = "reduce" /\ comms[r.comm].rank = r.root
    IN  (/\ Ended(t)
         /\ name \in CollNames
         /\ \/ Exceeds(r, gpudata[src].sz, off)
            \/ needsDest /\ Exceeds(r, gpudata[r.dest].sz, r.offdest))
          => /\ ret[t] = "GA_VALUE_ERROR"
             /\ log[t].enters = 0
             /\ log[t].waited = {}
             /\ log[t].recorded = {}
             /\ log[t].issued = << >>

\* The source buffer of a collective request, its offset, and whether the
\* call needs the destination.
SrcOf(name, r) == IF name = "broadcast" THEN r.array ELSE r.src
SrcOff(name, r) == IF name = "broadcast" THEN r.offset ELSE r.offsrc
NeedsDest(name, r) ==
  \/ name \in {"all_reduce", "reduce_scatter", "all_gather"}
  \/ name = "reduce" /\ comms[r.comm].rank = r.root

\* An offset of the request lies beyond the end of its buffer.
OffsetOut(name, r) ==
  \/ SrcOff(name, r) > gpudata[SrcOf(name, r)].sz
  \/ NeedsDest(name, r) /\ r.offdest > gpudata[r.dest].sz

\* C11: whatever its input, a collective returns a status code and never
\* aborts the process; with an offset beyond the end of a buffer the
\* status is an error and no native collective is issued.
C11_StatusNeverAbort ==
  \A t \in Threads :
    (Ended(t) /\ log[t].name \in CollNames)
      => /\ ret[t] # "SIGABRT"
         /\ OffsetOut(log[t].name, log[t].r)
              => ret[t] # "GA_NO_ERROR" /\ log[t].issued = << >>

\* The collective request is one check_restrictions has nothing against as
\* far as its source goes: context, type and reduce codes, room.
SourceFine(name, r) ==
  /\ gpudata[SrcOf(name, r)].ctx = comms[r.comm].ctx
  /\ convert_data_type(r.typecode, CUDA_HAS_HALF) # nccl_NUM_TYPES
  /\ convert_reduce_op(r.opcode) # nccl_NUM_OPS
  /\ SrcOff(name, r) <= gpudata[SrcOf(name, r)].sz
  /\ ~Exceeds(r, gpudata[SrcOf(name, r)].sz, SrcOff(name, r))

\* The failures of the calls a reduce makes outside this code: the rank
\* query and the collective, a wait or a record.
External == {"GA_COMM_ERROR", "GA_IMPL_ERROR"}

\* C12: a reduce on a rank other than the root succeeds with a NULL
\* destination (only a call it makes outside can fail it): the destination
\* is not validated, waited on or recorded and the native call gets none;
\* on the root the destination is validated (context, room from offdest)
\* and waited on and recorded with WRITE.
C12_ReduceRoot ==
  \A t \in Threads :
    (Ended(t) /\ log[t].name = "reduce")
      => LET r == log[t].r
             src == <<r.src, CUDA_WAIT_READ>>
         IN  IF comms[r.comm].rank # r.root
             THEN /\ SourceFine("reduce", r) => ret[t] \in {"GA_NO_ERROR"} \cup External
                  /\ log[t].waited \subseteq {src}
                  /\ log[t].recorded \subseteq {src}
                  /\ \A i \in DOMAIN log[t].issued : log[t].issued[i].args.dest[1] = NULL
                  /\ Ok(t) => log[t].waited = {src} /\ log[t].recorded = {src}
             ELSE /\ (\/ gpudata[r.dest].ctx # comms[r.comm].ctx
                      \/ (r.offdest <= gpudata[r.dest].sz
                          /\ Exceeds(r, gpudata[r.dest].sz, r.offdest)))
                       => ret[t] \in {"GA_VALUE_ERROR", "GA_COMM_ERROR"} /\ log[t].enters = 0
                  /\ log[t].issued # << >>
                       => log[t].waited = {src, <<r.dest, CUDA_WAIT_WRITE>>}
                  /\ Ok(t) => log[t].recorded = {src, <<r.dest, CUDA_WAIT_WRITE>>}

\* The bytes of n elements of the request's type fit in buffer b from
\* offset off.
Holds(r, b, off, n) == off + n * gpuarray_get_elsize(r.typecode) <= gpudata[b].sz

\* C13: reduce_scatter accepts a request only if the source holds count x
\* ndev elements from offsrc and the destination count elements from
\* offdest; all_gather only if the source holds count elements and the
\* destination count x ndev; ndev is the world size of the communicator at
\* the call.
C13_WorldSizeRoom ==
  \A t \in Threads :
    (log[t].name \in {"reduce_scatter", "all_gather"} /\ log[t].enters > 0)
      => LET r == log[t].r
             ndev == comms[r.comm].ndev
         IN  IF log[t].name = "reduce_scatter"
             THEN /\ Holds(r, r.src, r.offsrc, r.count * ndev)
                  /\ Holds(r, r.dest, r.offdest, r.count)
             ELSE /\ Holds(r, r.src, r.offsrc, r.count)
                  /\ Holds(r, r.dest, r.offdest, r.count * ndev)

\* The source, or the destination the call needs, is a buffer of another
\* context than the communicator's.
OtherContext(name, r) ==
  \/ gpudata[SrcOf(name, r)].ctx # comms[r.comm].ctx
  \/ NeedsDest(name, r) /\ gpudata[r.dest].ctx # comms[r.comm].ctx

\* C14: a collective whose source, or required destination, belongs to
\* another context than the communicator returns the value error before
\* entering the gate.
C14_ContextMismatch ==
  \A t \in Threads :
    (Ended(t) /\ log[t].name \in CollNames /\ OtherContext(log[t].name, log[t].r))
      => ret[t] = "GA_VALUE_ERROR" /\ log[t].enters = 0

\* C15: when the native call of a collective fails, the entry point
\* returns the communication error, the context's last-error string is the
\* backend's message for the failure, the gate has been exited and nothing
\* has been recorded; when it succeeds the string is the success message.
C15_CommError ==
  \A t \in Threads :
    (log[t].name \in CollNames /\ log[t].issued # << >>)
      => LET c == comms[log[t].r.comm].ctx
         IN  IF log[t].issued[1].ok
             THEN ctxs[c].comm_error = "nccl_success_error"
             ELSE /\ log[t].recorded = {}
                  /\ Returned(t) => /\ ret[t] = "GA_COMM_ERROR"
                                    /\ ctxs[c].comm_error = "nccl_err"
                                    /\ log[t].enters = log[t].exits

\* An all_gather whose native call failed has returned.
C15_Witness ==
  /\ Returned(1)
  /\ log[1].name = "all_gather"
  /\ log[1].issued # << >>
  /\ ~log[1].issued[1].ok
  /\ log[1].waited # {}
  /\ ret[1] = "GA_COMM_ERROR"
  /\ ctxs[1].comm_error = "nccl_err"
  /\ ctxs[1].depth = 0

\* Thread t is in a setup that found the context with a handle: the call
\* has not returned, entered the gate or touched a handle.
SetupFoundHandle(t) ==
  /\ log[t].name = "setup"
  /\ todo[t] # << >>
  /\ log[t].enters = 0
  /\ log[t].trail = << >>
  /\ ctxs[log[t].r.c].blas_handle # NULL

\* C16: setup on a context that has a handle returns success without
\* creating a library handle, compiling a kernel or entering the gate, and
\* leaves the context's handle the object it was, however often setup is
\* called: the step of such a call changes no context and no handle and
\* ends the call with success.
C16_SetupIdempotent ==
  [][\A t \in Threads :
       SetupFoundHandle(t)
         => /\ ctxs' = ctxs
            /\ handles' = handles
            /\ todo'[t] = << >>
            /\ ret'[t] = "GA_NO_ERROR"
            /\ log'[t].enters = 0
            /\ log'[t].trail = << >>]_vars

\* A setup on a context with a handle has returned.
C16_Witness ==
  /\ Ok(1)
  /\ log[1].name = "setup"
  /\ log[1].enters = 0
  /\ log[1].trail = << >>
  /\ ctxs[1].blas_handle # NULL
  /\ handles[ctxs[1].blas_handle].st = "live"

\* The places in the trail of thread t's call of the statements op on
\* kernel fn ("" for a statement on the handle itself) that met ok.
Trail(t, op, fn, ok) ==
  {i \in DOMAIN log[t].trail : log[t].trail[i] = [op |-> op, fn |-> fn, ok |-> ok]}

\* Thread t's call was a setup that has returned an error.
SetupFailed(t) ==
  /\ Returned(t)
  /\ log[t].name = "setup"
  /\ ret[t] # "GA_NO_ERROR"

\* C17: a setup that fails at any step returns with the context still
\* without a handle, the library handle destroyed once if the call created
\* one (and never otherwise), each kernel cleared once if the call built it
\* (and never otherwise), the allocation freed, and the gate exited as often
\* as it was entered.
C17_FailedSetupUnwinds ==
  \A t \in Threads :
    SetupFailed(t) =>
      /\ ctxs[log[t].r.c].blas_handle = NULL
      /\ Cardinality(Trail(t, "cublasDestroy", "", TRUE))
           = Cardinality(Trail(t, "cublasCreate", "", TRUE))
      /\ Trail(t, "cublasDestroy", "", FALSE) = {}
      /\ \A k \in DOMAIN kernels :
           /\ Cardinality(Trail(t, "GpuKernel_clear", kernels[k], TRUE))
                = Cardinality(Trail(t, "GpuKernel_init", kernels[k], TRUE))
           /\ Trail(t, "GpuKernel_clear", kernels[k], FALSE) = {}
      /\ Cardinality(Trail(t, "free", "", TRUE))
           = Cardinality(Trail(t, "calloc", "", TRUE))
      /\ Trail(t, "free", "", FALSE) = {}
      /\ \A h \in HandleIds :
           (\A c \in Contexts : ctxs[c].blas_handle # h) => handles[h].st = "free"
      /\ log[t].exits = log[t].enters
      /\ ctxs[log[t].r.c].depth = 0

\* A setup has failed at its fourth kernel after building three, and has
\* cleared those three.
C17_Witness ==
  /\ SetupFailed(1)
  /\ Trail(1, "GpuKernel_init", kernels[4], FALSE) # {}
  /\ \A k \in 1..3 : Trail(1, "GpuKernel_clear", kernels[k], TRUE) # {}
  /\ Trail(1, "cublasDestroy", "", TRUE) # {}
  /\ log[1].exits = 1

\* Thread t is in a teardown that found the context without a handle.
TeardownNoHandle(t) ==
  /\ log[t].name = "teardown"
  /\ todo[t] # << >>
  /\ log[t].enters = 0
  /\ log[t].trail = << >>
  /\ ctxs[log[t].r.c].blas_handle = NULL

\* Thread t's call was a teardown of a context with a handle, and has
\* returned.
TornDown(t) ==
  /\ Ended(t)
  /\ log[t].name = "teardown"
  /\ log[t].trail # << >>

\* C18: a teardown on a context without a handle ends in a step that
\* changes no context, no handle and nothing on the device and does not
\* enter the gate; a teardown on a context with a handle has, when it ends,
\* destroyed the library handle once and cleared each of the six kernels
\* once, each of them there to be destroyed, freed the handle and left the
\* context without one with the gate exited, so that a teardown after it
\* finds no handle; a setup called on a context without a handle starts from
\* the allocation of a new handle, and when it succeeds the context has a
\* live handle with the six kernels that this call allocated and created.
C18_Teardown ==
  [][\A t \in Threads :
       /\ TeardownNoHandle(t)
            => /\ ctxs' = ctxs
               /\ handles' = handles
               /\ dev' = dev
               /\ todo'[t] = << >>
               /\ log'[t].enters = 0
               /\ log'[t].trail = << >>
       /\ TornDown(t)'
            => /\ ctxs'[log'[t].r.c].blas_handle = NULL
               /\ log'[t].trail =
                    << [op |-> "cublasDestroy", fn |-> "", ok |-> TRUE] >> \o
                    [k \in 1..6 |-> [op |-> "GpuKernel_clear", fn |-> kernels[k], ok |-> TRUE]] \o
                    << [op |-> "free", fn |-> "", ok |-> TRUE] >>
               /\ \A h \in HandleIds :
                    (\A c \in Contexts : ctxs'[c].blas_handle # h) => handles'[h].st = "free"
               /\ log'[t].enters = 1
               /\ log'[t].exits = 1
       /\ (todo[t] = << >> /\ log'[t].name = "setup"
             /\ ctxs[log'[t].r.c].blas_handle = NULL)
            => Head(todo'[t]).op = "calloc"
       /\ (Ok(t)' /\ log'[t].name = "setup" /\ log'[t].trail # << >>)
            => /\ log'[t].trail[1] = [op |-> "calloc", fn |-> "", ok |-> TRUE]
               /\ log'[t].trail[2] = [op |-> "cublasCreate", fn |-> "", ok |-> TRUE]
               /\ ctxs'[log'[t].r.c].blas_handle # NULL
               /\ handles'[ctxs'[log'[t].r.c].blas_handle].st = "live"
               /\ handles'[ctxs'[log'[t].r.c].blas_handle].kernels
                    = {kernels[k] : k \in DOMAIN kernels}]_vars

\* A teardown of a context with a handle has returned.
C18_Witness ==
  /\ TornDown(1)
  /\ Len(log[1].trail) = 8
  /\ ctxs[log[1].r.c].blas_handle = NULL
  /\ \A h \in HandleIds : handles[h].st = "free"

\* Thread t's call is a pointer-batched gemm that passed the overflow test.
InGemmBatch(t) ==
  /\ log[t].name \in {"sgemmBatch", "dgemmBatch"}
  /\ log[t].enters > 0

\* M * N * K of the request of thread t's call as it was passed, before any
\* swap for the row-major form.
Volume(t) == Mul(Mul(log[t].r.M, log[t].r.N), log[t].r.K)

\* The vendor's gemm of one item and of a batch of pointers.
SingleGemm == {"cublasSgemm", "cublasDgemm"}
BatchedGemm == {"cublasSgemmBatched", "cublasDgemmBatched"}

\* C19: a pointer-batched gemm whose M * N * K is above 650^3 allocates and
\* writes no scratch and issues only single gemm calls, batchCount of them
\* when it succeeds; one whose M * N * K is 650^3 or less issues no single
\* gemm call and at most one scratch allocation, one scratch write and one
\* batched call, exactly one of each when it succeeds, the batched call's
\* three pointer arrays at 0, batchCount and 2 * batchCount pointers from
\* the start of a scratch of 3 * batchCount pointers; the branch depends on
\* the request's M * N * K alone, so it is the same in both orders.
C19_BatchBranch ==
  \A t \in Threads :
    InGemmBatch(t) =>
      LET n == log[t].r.batchCount
          calls == log[t].issued
      IN  IF Volume(t) > threshold * threshold * threshold
          THEN /\ log[t].allocs = 0
               /\ log[t].writes = 0
               /\ Len(calls) <= n
               /\ \A i \in DOMAIN calls : calls[i].fn \in SingleGemm
               /\ Ok(t) => Len(calls) = n
          ELSE /\ log[t].allocs <= 1
               /\ log[t].writes <= log[t].allocs
               /\ Len(calls) <= log[t].writes
               /\ \A i \in DOMAIN calls :
                    /\ calls[i].fn \in BatchedGemm
                    /\ calls[i].args.batchCount = n
                    /\ calls[i].args.Aa = <<"Ta", 0>>
                    /\ calls[i].args.Ba = <<"Ta", n>>
                    /\ calls[i].args.Ca = <<"Ta", 2 * n>>
                    /\ Len(calls[i].args.T_l) = 3 * n
               /\ Ok(t) => /\ log[t].allocs = 1
                           /\ log[t].writes = 1
                           /\ Len(calls) = 1

\* A pointer-batched gemm of two items with M * N * K equal to 650^3 has
\* succeeded with one batched call.
C19_Witness ==
  /\ Ok(1)
  /\ InGemmBatch(1)
  /\ Volume(1) = threshold * threshold * threshold
  /\ log[1].r.batchCount = MaxBatch
  /\ log[1].allocs = 1
  /\ Len(log[1].issued) = 1

\* Thread t's call is a batched gemv with a scale factor other than 1 that
\* passed the test of flags.
GemvBatchScaled(t) ==
  /\ log[t].name \in {"sgemvBatch", "dgemvBatch"}
  /\ log[t].r.flags = 0
  /\ (log[t].r.alpha # 1 \/ log[t].r.beta # 1)

\* Thread t's call is a batched ger with alpha other than 1 that passed
\* the test of flags and the test of the grid.
GerBatchScaled(t) ==
  /\ log[t].name \in {"sgerBatch", "dgerBatch"}
  /\ log[t].r.flags = 0
  /\ GerBatchConfig(log[t].r.M, log[t].r.N, log[t].r.incX, log[t].r.batchCount)[3]
  /\ log[t].r.alpha # 1

\* The call of thread t was rejected as unsupported, before the gate and
\* without a kernel launch or a scratch buffer.
Unsupported(t) ==
  /\ ret[t] = "GA_UNSUPPORTED_ERROR"
  /\ log[t].enters = 0
  /\ log[t].issued = << >>
  /\ log[t].allocs = 0

HgemmAbsent(t) ==
  /\ log[t].name = "hgemm"
  /\ "cublasSgemmEx" \notin log[t].r.lib

\* C21: an hgemm on a library without the reduced-precision gemm never
\* enters the gate, waits on or records a buffer or issues a vendor call,
\* and ends with the capability error.
C21_HalfAbsent ==
  \A t \in Threads :
    HgemmAbsent(t) =>
      /\ log[t].enters = 0
      /\ log[t].waited = {}
      /\ log[t].recorded = {}
      /\ log[t].issued = << >>
      /\ Ended(t) => ret[t] = "GA_DEVSUP_ERROR"

\* An hgemm of sizes that pass the overflow test has returned on a library
\* that has every optional entry point but cublasSgemmEx.
C21_Witness ==
  /\ Returned(1)
  /\ HgemmAbsent(1)
  /\ log[1].r.lib = FullLib \ {"cublasSgemmEx"}
  /\ ~GemmLarge(log[1].r)
  /\ ret[1] = "GA_DEVSUP_ERROR"

\* The strided-batch primitive of a strided-batched gemm entry point.
StridedPrimitive(name) ==
  CASE name = "hgemm3D" -> "cublasHgemmStridedBatched"
    [] name = "sgemm3D" -> "cublasSgemmStridedBatched"
    [] OTHER -> "cublasDgemmStridedBatched"

\* Thread t's call is a strided-batched gemm of sizes that pass the
\* overflow test.
InGemm3D(t) ==
  /\ log[t].name \in {"hgemm3D", "sgemm3D", "dgemm3D"}
  /\ ~GemmLarge(log[t].r)

\* The calls thread t's strided-batched gemm issued are calls of its
\* strided-batch primitive for all batch items, at most one of them and
\* one when the call succeeded.
OneStridedCall(t) ==
  /\ Len(log[t].issued) <= 1
  /\ \A i \in DOMAIN log[t].issued :
       /\ log[t].issued[i].fn = StridedPrimitive(log[t].name)
       /\ log[t].issued[i].args.batchCount = log[t].r.batchCount
  /\ Ok(t) => Len(log[t].issued) = 1

\* C22: a strided-batched gemm on a library with its strided-batch
\* primitive issues exactly one call of it for all batch items; on a library
\* without the primitive it is served by the pointer-batched path: it does
\* not end with the capability error, and when it succeeds it has issued
\* the gemm calls of that path.
C22_StridedOrFallback ==
  \A t \in Threads :
    (InGemm3D(t) /\ Ended(t)) =>
      IF StridedPrimitive(log[t].name) \in log[t].r.lib
      THEN OneStridedCall(t)
      ELSE /\ ret[t] # "GA_DEVSUP_ERROR"
           /\ Ok(t) => /\ log[t].issued # << >>
                       /\ \A i \in DOMAIN log[t].issued :
                            log[t].issued[i].fn \in SingleGemm \cup BatchedGemm

\* No call is running.
Quiet == \A t \in Threads : todo[t] = << >>

\* The communicators of context c that were created and not yet freed.
LiveComms(c) == {k \in CommIds : comms[k].st = "live" /\ comms[k].ctx = c}

\* C24: between calls the reference count of every context is its initial
\* value plus the number of its communicators that were created and not
\* yet freed; a comm_new that has returned success has set the output
\* communicator, and one that has returned an error has set it to NULL,
\* left no communicator behind and exited the gate as often as it entered.
C24_RefCount ==
  /\ Quiet => \A c \in Contexts :
                ctxs[c].refcnt = InitCtx.refcnt + Cardinality(LiveComms(c))
  /\ \A t \in Threads :
       (Returned(t) /\ log[t].name = "comm_new") =>
         /\ log[t].exits = log[t].enters
         /\ IF ret[t] = "GA_NO_ERROR"
            THEN /\ loc[t].comm_ptr = "comm"
                 /\ loc[t].comm \in LiveComms(log[t].r.c)
            ELSE /\ ret[t] \in {"GA_MEMORY_ERROR", "GA_COMM_ERROR"}
                 /\ loc[t].comm_ptr = "NULL"
                 /\ \A k \in CommIds : comms[k].st \in {"free", "live"}

\* A comm_new has failed in the native initialisation on a context that
\* has one communicator, and the count is that of the one communicator.
C24_Witness ==
  /\ Returned(1)
  /\ log[1].name = "comm_new"
  /\ ret[1] = "GA_COMM_ERROR"
  /\ log[1].enters = 1
  /\ Cardinality(LiveComms(1)) = 1
  /\ ctxs[1].refcnt = InitCtx.refcnt + 1


\* The world has completed exactly its reduce, every rank i contributing
\* the constant i + 1 under the sum.
ReducedSum ==
  /\ world.plan = "reduce_broadcast"
  /\ world.done = 1
  /\ world.op = "GA_SUM"
  /\ \A i \in DOMAIN world.val : world.val[i] = i + 1

\* The elements of rank i's destination the collective addresses.
DestRange(i) ==
  Load(world.mem[i], <<3, WorldReq(world.root, world.op).offdest>>,
       NcclWidth("ncclFloat"), WorldReq(world.root, world.op).count)

\* C25: when every participant i of a world of W reduces the constant
\* i + 1 to root r under the sum, r's destination holds W * (W + 1) / 2 at
\* every element of the collective and no other destination is changed.
C25_ReduceSum ==
  ReducedSum =>
    /\ \A k \in DOMAIN DestRange(world.root) :
         DestRange(world.root)[k] = (world.W * (world.W + 1)) \div 2
    /\ \A i \in DOMAIN world.mem :
         i # world.root => world.mem[i][3] = StartMem(world.val[i])[3]

C25_Witness ==
  /\ ReducedSum
  /\ world.W = 3
  /\ world.root = 2
  /\ DestRange(2) = <<6, 6>>
  /\ world.mem[0][3] = StartMem(1)[3]


\* The world has completed its reduce and its broadcast, after its
\* all_reduce from the same memories.
Replayed ==
  /\ world.plan = "reduce_broadcast"
  /\ world.done = 2

\* C26: all_reduce leaves on every participant the destination that reduce
\* to a root followed by broadcast of the destination from that root leaves.
C26_AllReduceIsReduceBroadcast ==
  Replayed => \A i \in DOMAIN world.mem : world.mem[i][3] = world.kept[i]

C26_Witness ==
  /\ Replayed
  /\ world.W = 3
  /\ world.op = "GA_MAX"
  /\ world.val = [i \in Ranks(3) |-> IF i = 1 THEN 3 ELSE 1]
  /\ \A i \in Ranks(3) : world.kept[i] = <<9, 9, 3, 3>> /\ world.mem[i][3] = <<9, 9, 3, 3>>


GemmNames == {"hgemm", "sgemm", "dgemm"}
Gemm3DNames == {"hgemm3D", "sgemm3D", "dgemm3D"}
GemmBatchNames == {"sgemmBatch", "dgemmBatch"}

\* Request r with A and B, M and N, lda and ldb, transA and transB, offA
\* and offB, and the strides where there are any, exchanged.
Exchange(r) ==
  LET x == [r EXCEPT !.A = r.B, !.B = r.A, !.M = r.N, !.N = r.M,
                     !.lda = r.ldb, !.ldb = r.lda,
                     !.transA = r.transB, !.transB = r.transA,
                     !.offA = r.offB, !.offB = r.offA]
  IN  IF "strideA" \in DOMAIN r
      THEN [x EXCEPT !.strideA = r.strideB, !.strideB = r.strideA]
      ELSE x

\* What the vendor call is to be given for request r.
Given(r) == IF r.order = "cb_c" THEN Exchange(r) ELSE r

\* The dimensions and flags of vendor call e are those of x.
SameShape(e, x) ==
  /\ e.args.transA = convT(x.transA) /\ e.args.transB = convT(x.transB)
  /\ e.args.M = x.M /\ e.args.N = x.N /\ e.args.K = x.K
  /\ e.args.lda = x.lda /\ e.args.ldb = x.ldb /\ e.args.ldc = x.ldc

\* Vendor call e has the operands of x, or of item i of x.
SameOperands(e, x) ==
  /\ e.args.A = x.A /\ e.args.offA = x.offA
  /\ e.args.B = x.B /\ e.args.offB = x.offB
  /\ e.args.C = x.C /\ e.args.offC = x.offC
SameItem(e, x, i) ==
  /\ e.args.A = x.A[i] /\ e.args.offA = x.offA[i]
  /\ e.args.B = x.B[i] /\ e.args.offB = x.offB[i]
  /\ e.args.C = x.C[i] /\ e.args.offC = x.offC[i]

\* The pointer table of a batched call holds the operands of x: the A's,
\* then the B's, then the C's.
SameTable(e, x) ==
  /\ e.args.batchCount = x.batchCount
  /\ Len(e.args.T_l) = 3 * x.batchCount
  /\ \A i \in 1..x.batchCount :
       /\ e.args.T_l[i] = <<x.A[i], x.offA[i]>>
       /\ e.args.T_l[x.batchCount + i] = <<x.B[i], x.offB[i]>>
       /\ e.args.T_l[2 * x.batchCount + i] = <<x.C[i], x.offC[i]>>

\* C27: the vendor call of gemm and of its strided-batched and pointer-
\* batched variants is given a row-major request with A and B, M and N, lda
\* and ldb, transA and transB, offA and offB (and strideA and strideB)
\* exchanged and K, C, offC, ldc and batchCount as they are, and a column-
\* major request as it is; the exchange applied twice is the request.
C27_RowMajorExchange ==
  \A t \in Threads :
    LET l == log[t]
        x == Given(l.r)
    IN  l.name \in GemmNames \cup Gemm3DNames \cup GemmBatchNames =>
          /\ Exchange(Exchange(l.r)) = l.r
          /\ SwapAB(SwapAB(l.r)) = l.r
          /\ l.name \in Gemm3DNames => SwapAB3D(SwapAB3D(l.r)) = l.r
          /\ l.name \in GemmBatchNames => SwapABBatch(SwapABBatch(l.r)) = l.r
          /\ \A i \in DOMAIN l.issued :
               LET e == l.issued[i]
               IN  /\ SameShape(e, x)
                   /\ l.name \in GemmNames => SameOperands(e, x)
                   /\ l.name \in Gemm3DNames =>
                        /\ SameOperands(e, x)
                        /\ e.args.strideA = x.strideA
                        /\ e.args.strideB = x.strideB
                        /\ e.args.strideC = x.strideC
                        /\ e.args.batchCount = x.batchCount
                   /\ l.name \in GemmBatchNames =>
                        IF "T_l" \in DOMAIN e.args
                        THEN SameTable(e, x)
                        ELSE SameItem(e, x, i)

\* A row-major strided-batched request whose call has been issued.
C27_Witness ==
  /\ log[1].name = "sgemm3D"
  /\ log[1].r.order = "cb_c"
  /\ Len(log[1].issued) = 1
  /\ log[1].issued[1].args.A = log[1].r.B
  /\ log[1].issued[1].args.strideA = log[1].r.strideB
  /\ log[1].issued[1].args.M = log[1].r.N
  /\ log[1].issued[1].args.K = log[1].r.K


\* Thread t is in a batched gemv whose kernel has been launched.
GemvBatchLaunched(t) ==
  /\ log[t].name \in {"sgemvBatch", "dgemvBatch"}
  /\ log[t].issued # << >>

\* C28: the launch of a batched gemv has a block of 32 or 512 by at most 16
\* threads, at most 512 in all, and a grid of at least 1 by 1 and at most
\* 65535 blocks.
C28_LaunchBounds ==
  \A t \in Threads :
    GemvBatchLaunched(t) =>
      \A i \in DOMAIN log[t].issued :
        LET ls == log[t].issued[i].args.ls
            gs == log[t].issued[i].args.gs
        IN  /\ ls[1] \in {32, 512}
            /\ ls[2] >= 1 /\ ls[2] <= 16
            /\ ls[1] * ls[2] <= 512
            /\ gs[1] >= 1 /\ gs[2] >= 1
            /\ Mul(gs[1], gs[2]) <= 65535


\* The element types and reduce operations the collectives accept.
SupportedTypes ==
  {"GA_BYTE", "GA_INT", "GA_FLOAT", "GA_DOUBLE", "GA_LONG", "GA_ULONG"}
  \cup (IF CUDA_HAS_HALF THEN {"GA_HALF"} ELSE {})
SupportedOps == {"GA_SUM", "GA_PROD", "GA_MAX", "GA_MIN"}
Reducing == {"reduce", "all_reduce", "reduce_scatter"}

\* Thread t is in a collective whose type code, or whose reduce operation
\* if it reduces, is not among the accepted ones.
BadCode(t) ==
  /\ log[t].name \in CollNames
  /\ \/ log[t].r.typecode \notin SupportedTypes
     \/ log[t].name \in Reducing /\ log[t].r.opcode \notin SupportedOps

\* C29 as stated: such a call never enters the gate, issues no native
\* collective, and returns the value error.
C29_BadCodeValueError ==
  \A t \in Threads :
    BadCode(t) =>
      /\ log[t].enters = 0
      /\ log[t].issued = << >>
      /\ Ended(t) => ret[t] = "GA_VALUE_ERROR"

\* C29, amended: such a call never enters the gate and issues no native
\* collective; it returns the value error, except that reduce and
\* reduce_scatter, which query the rank or the world size before they
\* validate, return the communication error when that query fails.
C29_BadCodeRejected ==
  \A t \in Threads :
    BadCode(t) =>
      /\ log[t].enters = 0
      /\ log[t].issued = << >>
      /\ Ended(t) =>
           \/ ret[t] = "GA_VALUE_ERROR"
           \/ /\ ret[t] = "GA_COMM_ERROR"
              /\ log[t].name \in {"reduce", "reduce_scatter"}
              /\ ctxs[comms[log[t].r.comm].ctx].comm_error = "nccl_err"

\* An all_reduce of floats with an unknown reduce operation was rejected.
C29_Witness ==
  /\ log[1].name = "all_reduce"
  /\ log[1].r.typecode = "GA_FLOAT"
  /\ log[1].r.opcode = "GA_NOP"
  /\ Ended(1)
  /\ ret[1] = "GA_VALUE_ERROR"
  /\ log[1].enters = 0


\* A cuBLAS call of the linear-algebra entry point thread t is in has
\* failed.
VendorFailed(t) ==
  /\ log[t].name \in BlasNames
  /\ log[t].failed # "none"

\* C30: a linear-algebra entry point in which a cuBLAS call failed returns
\* GA_BLAS_ERROR, or GA_DEVSUP_ERROR when the failure is an architecture
\* mismatch, and has left the gate when it returns.
C30_VendorFailure ==
  \A t \in Threads :
    (VendorFailed(t) /\ Ended(t)) =>
      /\ ret[t] = IF log[t].failed = "CUBLAS_STATUS_ARCH_MISMATCH"
                  THEN "GA_DEVSUP_ERROR" ELSE "GA_BLAS_ERROR"
      /\ log[t].enters = 1
      /\ log[t].exits = 1

\* A batched gemm whose cublasSgemmBatched met an architecture mismatch.
C30_Witness ==
  /\ VendorFailed(1)
  /\ Ended(1)
  /\ log[1].name = "sgemmBatch"
  /\ log[1].failed = "CUBLAS_STATUS_ARCH_MISMATCH"
  /\ log[1].issued[1].fn = "cublasSgemmBatched"
  /\ ret[1] = "GA_DEVSUP_ERROR"
  /\ log[1].exits = 1


\* Thread t has returned success from a broadcast on a participant that is
\* not the root: its buffer has received the data.
BroadcastReceived(t) ==
  /\ Ok(t)
  /\ log[t].name = "broadcast"
  /\ comms[log[t].r.comm].rank # log[t].r.root
  /\ \E i \in DOMAIN log[t].issued :
       log[t].issued[i].fn = "ncclBcast" /\ <<log[t].r.array, "w">> \in log[t].issued[i].acc

\* C31: after a successful broadcast on a participant that is not the
\* root, what was recorded for the buffer includes the write, so that a
\* later wait with READ is ordered after it.
C31_BroadcastRecordsWrite ==
  \A t \in Threads :
    BroadcastReceived(t) =>
      \E e \in log[t].recorded : e[1] = log[t].r.array /\ "W" \in e[2]


\* Thread t is in the loop of single calls of a pointer-batched gemm and
\* the call of item k has failed.
ItemFailed(t, k) ==
  /\ log[t].name \in GemmBatchNames
  /\ k \in DOMAIN log[t].issued
  /\ ~log[t].issued[k].ok
  /\ "T_l" \notin DOMAIN log[t].issued[k].args

\* A device call of the linear-algebra operation thread t is in has failed.
DeviceCallFailed(t) ==
  /\ log[t].name \in BlasNames
  /\ \E i \in DOMAIN log[t].issued : ~log[t].issued[i].ok

\* C32, the loop: when the call of item k fails, the items before it were
\* waited, executed and recorded, item k was waited and not recorded, no
\* later item is waited or recorded, the gate is exited and the error is
\* returned.
ItemFailureStops ==
  \A t \in Threads : \A k \in 1..MaxBatch :
    ItemFailed(t, k) =>
      LET x == Given(log[t].r)
      IN  /\ Len(log[t].issued) = k
          /\ \A j \in 1..(k - 1) : log[t].issued[j].ok /\ SameItem(log[t].issued[j], x, j)
          /\ SameItem(log[t].issued[k], x, k)
          /\ log[t].nwait = 3 * k
          /\ log[t].nrec = 3 * (k - 1)
          /\ {<<x.A[k], CUDA_WAIT_READ>>, <<x.B[k], CUDA_WAIT_READ>>,
              <<x.C[k], CUDA_WAIT_ALL>>} \subseteq log[t].waited
          /\ \A i \in DOMAIN todo[t] : todo[t][i].op \in {"cuda_exit", "return"}
          /\ Ended(t) =>
               /\ log[t].enters = 1 /\ log[t].exits = 1
               /\ ret[t] \in {"GA_BLAS_ERROR", "GA_DEVSUP_ERROR"}

\* C32, every operation: once a device call of a linear-algebra operation
\* has failed, the operation records nothing more.
NoRecordAfterFailure ==
  \A t \in Threads :
    (DeviceCallFailed(t) /\ log'[t].name = log[t].name) =>
      /\ log'[t].nrec = log[t].nrec
      /\ log'[t].recorded = log[t].recorded

\* C32: a failure of the vendor call of item i in the loop of a pointer-
\* batched gemm leaves the items before i waited, executed and recorded,
\* item i waited and not recorded and the later items untouched, with the
\* gate exited and the error returned; and no linear-algebra operation
\* records an operand after its device call failed.
C32_FailureStops == []ItemFailureStops /\ [][NoRecordAfterFailure]_vars

\* The call of the second item failed after the first was recorded.
C32_Witness ==
  /\ ItemFailed(1, 2)
  /\ Ended(1)
  /\ log[1].issued[1].ok
  /\ log[1].nwait = 6
  /\ log[1].nrec = 3
  /\ log[1].exits = 1


GemvNames == {"sgemv", "dgemv"}
GemvBatchNames == {"sgemvBatch", "dgemvBatch"}

\* Thread t is in a gemv or a batched gemv of a row-major request.
RowMajorGemv(t) ==
  /\ log[t].name \in GemvNames \cup GemvBatchNames
  /\ log[t].r.order = "cb_c"

\* C33 as stated: the normalization of a row-major gemv request applied
\* twice gives back M, N and transA, whichever the transpose flag.
C33_TwiceRestores ==
  \A t \in Threads :
    RowMajorGemv(t) =>
      LET r == log[t].r
          n == SwapGemv(SwapGemv(r))
      IN  n.M = r.M /\ n.N = r.N /\ n.transA = r.transA

\* The transpose flag the device is to be given for a row-major request.
Toggled(transA) == IF transA = "cb_no_trans" THEN "cb_trans" ELSE "cb_no_trans"

\* C33, amended: the normalization exchanges M and N and turns no-trans
\* into trans and both trans and conj-trans into no-trans, and that is
\* what the device call is given; applied twice it gives back M and N, and
\* transA for no-trans and trans, while conj-trans comes back as trans.
C33_TwiceRestoresReal ==
  \A t \in Threads :
    RowMajorGemv(t) =>
      LET r == log[t].r
          n == SwapGemv(SwapGemv(r))
      IN  /\ n.M = r.M /\ n.N = r.N
          /\ n.transA = IF r.transA = "cb_conj_trans" THEN "cb_trans" ELSE r.transA
          /\ \A i \in DOMAIN log[t].issued :
               IF log[t].name \in GemvNames
               THEN /\ log[t].issued[i].args.transA = convT(Toggled(r.transA))
                    /\ log[t].issued[i].args.M = r.N
                    /\ log[t].issued[i].args.N = r.M
               ELSE /\ log[t].issued[i].args.args.M = r.N
                    /\ log[t].issued[i].args.args.N = r.M
                    /\ log[t].issued[i].fn \in
                         IF Toggled(r.transA) = "cb_no_trans"
                         THEN {"sgemvBH_N_a1_b1_small", "dgemvBH_N_a1_b1_small"}
                         ELSE {"sgemvBH_T_a1_b1_small", "dgemvBH_T_a1_b1_small"}

\* A row-major gemv with conj-trans whose call was given no-trans.
C33_Witness ==
  /\ RowMajorGemv(1)
  /\ log[1].name = "sgemv"
  /\ log[1].r.transA = "cb_conj_trans"
  /\ Len(log[1].issued) = 1
  /\ log[1].issued[1].args.transA = "CUBLAS_OP_N"
  /\ SwapGemv(SwapGemv(log[1].r)).transA = "cb_trans"


\* Thread t has come out of sdot or ddot, with whatever result.
DotEnded(t) ==
  /\ Ended(t)
  /\ log[t].name \in {"sdot", "ddot"}

\* C34: when sdot or ddot has returned, with success or with a failure,
\* every live handle is in the host pointer mode that setup installed.
C34_PointerModeRestored ==
  \A t \in Threads :
    DotEnded(t) =>
      \A h \in HandleIds :
        handles[h].st = "live" => handles[h].pmode = "CUBLAS_POINTER_MODE_HOST"


\* The kernel a batched small-item operation is to launch for request r.
KernelFor(name, r) ==
  LET flag == IF r.order = "cb_c" THEN Toggled(r.transA) ELSE r.transA
  IN  CASE name = "sgemvBatch" ->
             IF flag = "cb_no_trans" THEN "sgemvBH_N_a1_b1_small"
             ELSE "sgemvBH_T_a1_b1_small"
        [] name = "dgemvBatch" ->
             IF flag = "cb_no_trans" THEN "dgemvBH_N_a1_b1_small"
             ELSE "dgemvBH_T_a1_b1_small"
        [] name = "sgerBatch" -> "sgerBH_gen_small"
        [] OTHER -> "dgerBH_gen_small"

\* C35: a batched gemv or ger launches the kernel of its precision, and
\* for gemv of its transpose flag after normalization.
C35_KernelMatches ==
  \A t \in Threads :
    log[t].name \in {"sgemvBatch", "dgemvBatch", "sgerBatch", "dgerBatch"} =>
      \A i \in DOMAIN log[t].issued :
        log[t].issued[i].fn = KernelFor(log[t].name, log[t].r)


\* Thread t is in a batched ger whose kernel has been launched.
GerBatchLaunched(t) ==
  /\ log[t].name \in {"sgerBatch", "dgerBatch"}
  /\ log[t].issued # << >>

\* C36: the launch of a batched ger covers the m by n index space its
\* kernel is given, with a block of at most 512 threads and a grid of at
\* most 65535 blocks that is at least 1 deep.
C36_GridCovers ==
  \A t \in Threads :
    GerBatchLaunched(t) =>
      \A i \in DOMAIN log[t].issued :
        LET ls == log[t].issued[i].args.ls
            gs == log[t].issued[i].args.gs
            k == log[t].issued[i].args.args
        IN  /\ Mul(gs[1], ls[1]) >= k.M
            /\ Mul(gs[2], ls[2]) >= k.N
            /\ Mul(ls[1], ls[2]) <= 512
            /\ Mul(Mul(gs[1], gs[2]), gs[3]) <= 65535
            /\ gs[3] >= 1


\* Thread t has returned success from a setup that found no handle.
SetupCreated(t) ==
  /\ Ok(t)
  /\ log[t].name = "setup"
  /\ log[t].trail # << >>

\* C37: when two threads have both returned from a setup that found the
\* context without a handle, one handle exists, the context has it, and
\* no handle is left that no context has.
C37_OneHandle ==
  (\A t \in Threads : SetupCreated(t) /\ log[t].r.c = 1) =>
    /\ Cardinality({h \in HandleIds : handles[h].st # "free"}) = 1
    /\ ctxs[1].blas_handle # NULL
    /\ handles[ctxs[1].blas_handle].st = "live"
    /\ \A h \in HandleIds :
         handles[h].st # "free" => \E c \in Contexts : ctxs[c].blas_handle = h


\* Thread t is in a collective, at an assertion of check_restrictions.
AtAssert(t) ==
  /\ log[t].name \in CollNames
  /\ todo[t] # << >>
  /\ Head(todo[t]).op = "assert"

\* C38: no assertion of check_restrictions reads through a NULL
\* destination, and no collective ends in an abort for it.
C38_NoNullRead ==
  \A t \in Threads :
    /\ AtAssert(t) => NULL \notin Head(todo[t]).args.deref
    /\ (Ended(t) /\ log[t].name \in CollNames) => ret[t] # "SIGABRT"

====
